---- MODULE Spec2Model ----
(***************************************************************************)
(* ContextGraph: the store (db.py), the incremental indexer (indexer.py)   *)
(* and the debounced watcher (watcher.py) as a state machine.              *)
(*                                                                         *)
(* Representation.  A dotted name ("pkg.mod.f") is the sequence of its     *)
(* dot-separated components (<<"pkg","mod","f">>); a path is the sequence  *)
(* of its segments; the bytes of a file are an index into Sources, whose   *)
(* entries are the concrete syntax trees tree-sitter produces for them.    *)
(* Signature and docstring text are not carried: no store operation reads  *)
(* them.                                                                   *)
(***************************************************************************)
EXTENDS Integers, Sequences, FiniteSets, Bags, TLC

VARIABLES
    disk,       \* file path -> content on disk (0: the file does not exist)
    db,         \* the SQLite tables: nodes, edges, observations, indexed_files
    clock,      \* time.time()
    last,       \* the direct indexer call that has just returned (none after any other step)
    pending,    \* _DebouncedHandler._pending: path -> timer
    timers,     \* every threading.Timer created so far, with its thread's position
    history,    \* per path: what the watcher has seen and started (for the timing claims)
    watcher,    \* ProjectWatcher: _running, the observer thread, the watches scheduled on it
    dbs,        \* create_app: the cache of per-project databases (0: no entry)
    requests,   \* the HTTP requests being served, each at its position in _get_db
    resume,     \* the last generate_resume call: its arguments, its sections, its budget count
    returned,   \* the last call of a query or helper function: its name, arguments and value
    projects    \* create_app: the registered projects, root -> watcher (0: no entry)

vars == <<disk, db, clock, last, pending, timers, history, watcher, dbs, requests, resume, returned,
          projects>>

----------------------------------------------------------------------------
(* Bounds *)

MaxClock == 1
MaxTime == 4
MaxTimers == 2
MaxObs == 2
MaxCalls == 3
MaxRequests == 3
MaxList == 3
MaxRows == 3
MaxEdges == 3
MaxDepth == 3
MaxStamp == 2

----------------------------------------------------------------------------
(* Values *)

\* Python None / SQL NULL in an id column; no dotted name has this component
None == <<"None">>

project_root == <<"/", "proj">>

FileA == project_root \o <<"a.py">>
FileInit == project_root \o <<"a", "__init__.py">>

Files == {FileA, FileInit}

T(type, name, text, line, line_end, extra, body) ==
    [type |-> type, name |-> name, text |-> text, line |-> line,
     line_end |-> line_end, extra |-> extra, body |-> body]

CallStmt(target, line) ==
    T("expression_statement", "", <<>>, line, line, <<>>,
      <<T("call", "", target, line, line, <<>>, <<>>)>>)

\*  1: import os
\*  2: def f():
\*  3:     g()
Source1 ==
    T("module", "", <<>>, 1, 4, <<>>, <<
        T("import_statement", "", <<>>, 1, 1, <<<<"os">>>>, <<>>),
        T("function_definition", "f", <<>>, 2, 3, <<>>, <<CallStmt(<<"g">>, 3)>>)
    >>)

\*  1: from pathlib import Path
\*  2: class C(Base):
\*  3:     def m(self):
\*  4:         f()
\*  5: @dec
\*  6: def f():
\*  7:     g()
\*  8: def f():
\*  9:     g()
Source2 ==
    T("module", "", <<>>, 1, 10, <<>>, <<
        T("import_from_statement", "", <<"pathlib">>, 1, 1, <<<<"Path">>>>, <<>>),
        T("class_definition", "C", <<>>, 2, 4, <<"Base">>, <<
            T("function_definition", "m", <<>>, 3, 4, <<>>, <<CallStmt(<<"f">>, 4)>>)
        >>),
        T("decorated_definition", "", <<>>, 5, 7, <<[head |-> <<"dec">>, args |-> ""]>>, <<
            T("function_definition", "f", <<>>, 6, 7, <<>>, <<CallStmt(<<"g">>, 7)>>)
        >>),
        T("function_definition", "f", <<>>, 8, 9, <<>>, <<CallStmt(<<"g">>, 9)>>)
    >>)

\*  1: import os
\*  2: if x:
\*  3:     def h():
\*  4:         g()
Source3 ==
    T("module", "", <<>>, 1, 5, <<>>, <<
        T("import_statement", "", <<>>, 1, 1, <<<<"os">>>>, <<>>),
        T("if_statement", "", <<>>, 2, 4, <<>>, <<
            T("block", "", <<>>, 3, 4, <<>>, <<
                T("function_definition", "h", <<>>, 3, 4, <<>>, <<CallStmt(<<"g">>, 4)>>)
            >>)
        >>)
    >>)

Sources == <<Source1, Source2, Source3>>

Contents == 1..Len(Sources)

\* _PARSER.parse(source).root_node
Parse(bytes) == Sources[bytes]

\* hashlib.sha256(bytes).hexdigest(): a digest that identifies the bytes
Sha256(bytes) == [sha256 |-> bytes]

----------------------------------------------------------------------------
(* db.py: the store.  Each operation takes the tables and returns them.     *)
(* Foreign keys are enforced (PRAGMA foreign_keys=ON): nodes.parent_id and  *)
(* edges.source_id reference nodes(id) ON DELETE CASCADE, and               *)
(* observations.node_id references nodes(id) ON DELETE SET NULL.            *)

EmptyDb == [nodes |-> {}, edges |-> {}, observations |-> {}, indexed_files |-> {}]

NodeIds(d) == {n.id : n \in d.nodes}

get_node(d, node_id) == {n \in d.nodes : n.id = node_id}

list_nodes(d, file_path) == {n \in d.nodes : n.file_path = file_path}

get_edges_for_file(d, file_path) == {e \in d.edges : e.file_path = file_path}

get_indexed_file(d, file_path) == {f \in d.indexed_files : f.file_path = file_path}

\* what a reader of the store sees for one file
View(d, file_path) ==
    [nodes |-> list_nodes(d, file_path), edges |-> get_edges_for_file(d, file_path),
     indexed_file |-> get_indexed_file(d, file_path)]

NoRows == [nodes |-> {}, edges |-> {}, indexed_file |-> {}]

HasRows(d, file_path) == View(d, file_path) # NoRows

\* a schema without ON DELETE CASCADE on parent_id: only the named rows go
Cascade_named_rows_only(nodes, dead) == dead

\* the rows removed with `dead` through FOREIGN KEY (parent_id) ... ON DELETE CASCADE
RECURSIVE Cascade(_, _)
Cascade(nodes, dead) ==
    LET more == {n.id : n \in {m \in nodes : m.id \notin dead /\ m.parent_id \in dead}}
    IN IF more = {} THEN dead ELSE Cascade(nodes, dead \cup more)

\* observations.node_id declared ON DELETE CASCADE instead of ON DELETE SET NULL
DeleteNodes_drops_observations(d, ids) ==
    LET dead == Cascade(d.nodes, ids)
    IN [d EXCEPT !.nodes = {n \in @ : n.id \notin dead},
                 !.edges = {e \in @ : e.source_id \notin dead},
                 !.observations = {o \in @ : o.node_id \notin dead}]

\* observations.node_id declared without a foreign key: the link stays
DeleteNodes_keeps_links(d, ids) ==
    LET dead == Cascade(d.nodes, ids)
    IN [d EXCEPT !.nodes = {n \in @ : n.id \notin dead},
                 !.edges = {e \in @ : e.source_id \notin dead}]

\* DELETE FROM nodes WHERE id IN ids, with the schema's ON DELETE actions
DeleteNodes(d, ids) ==
    LET dead == Cascade(d.nodes, ids)
    IN [d EXCEPT !.nodes = {n \in @ : n.id \notin dead},
                 !.edges = {e \in @ : e.source_id \notin dead},
                 !.observations = {IF o.node_id \in dead THEN [o EXCEPT !.node_id = None] ELSE o
                                   : o \in @}]

\* a purge that leaves the file's node rows in place
delete_nodes_for_file_keeps_rows(d, file_path) == d

delete_nodes_for_file(d, file_path) ==
    DeleteNodes(d, {n.id : n \in list_nodes(d, file_path)})

delete_edges_for_file(d, file_path) ==
    [d EXCEPT !.edges = {e \in @ : e.file_path # file_path}]

delete_indexed_file(d, file_path) ==
    [d EXCEPT !.indexed_files = {f \in @ : f.file_path # file_path}]

\* INSERT ... ON CONFLICT(id) DO UPDATE: the row with this id becomes `node`;
\* sqlite3.IntegrityError (ok = FALSE, nothing written) when parent_id names no row
\* INSERT OR REPLACE: the row of that id is deleted, with what hangs on it, and
\* the new row inserted
upsert_node_insert_or_replace(d, node) ==
    IF node.parent_id # None /\ node.parent_id \notin (NodeIds(d) \cup {node.id})
    THEN [db |-> d, ok |-> FALSE]
    ELSE [db |-> [DeleteNodes(d, {node.id}) EXCEPT !.nodes = @ \cup {node}], ok |-> TRUE]

upsert_node(d, node) ==
    IF node.parent_id # None /\ node.parent_id \notin (NodeIds(d) \cup {node.id})
    THEN [db |-> d, ok |-> FALSE]
    ELSE [db |-> [d EXCEPT !.nodes = {n \in @ : n.id # node.id} \cup {node}], ok |-> TRUE]

\* executemany: one INSERT per element, in order; a failing INSERT raises and
\* leaves the rows of the earlier ones in the connection's open transaction
RECURSIVE upsert_nodes(_, _)
upsert_nodes(d, nodes) ==
    IF nodes = <<>> THEN [db |-> d, ok |-> TRUE]
    ELSE LET r == upsert_node(d, Head(nodes))
         IN IF r.ok THEN upsert_nodes(r.db, Tail(nodes)) ELSE r

SameTriple(e, f) ==
    e.source_id = f.source_id /\ e.target_id = f.target_id /\ e.kind = f.kind

\* a plain INSERT, without the ON CONFLICT clause and without the unique index
upsert_edge_plain_insert(d, edge) ==
    IF edge.source_id \notin NodeIds(d)
    THEN [db |-> d, ok |-> FALSE]
    ELSE [db |-> [d EXCEPT !.edges = @ \cup {edge}], ok |-> TRUE]

\* INSERT ... ON CONFLICT(source_id, target_id, kind) DO UPDATE SET file_path, line
upsert_edge(d, edge) ==
    IF edge.source_id \notin NodeIds(d)
    THEN [db |-> d, ok |-> FALSE]
    ELSE [db |-> [d EXCEPT !.edges = {e \in @ : ~SameTriple(e, edge)} \cup {edge}], ok |-> TRUE]

RECURSIVE upsert_edges(_, _)
upsert_edges(d, edges) ==
    IF edges = <<>> THEN [db |-> d, ok |-> TRUE]
    ELSE LET r == upsert_edge(d, Head(edges))
         IN IF r.ok THEN upsert_edges(r.db, Tail(edges)) ELSE r

upsert_indexed_file(d, f) ==
    [d EXCEPT !.indexed_files = {g \in @ : g.file_path # f.file_path} \cup {f}]

----------------------------------------------------------------------------
(* indexer.py: extraction *)

NodeRecord(id, kind, name, file_path, line_start, line_end, parent_id, decorators, fhash, now) ==
    [id |-> id, kind |-> kind, name |-> name, file_path |-> file_path,
     line_start |-> line_start, line_end |-> line_end, parent_id |-> parent_id,
     decorators |-> decorators, file_hash |-> fhash, indexed_at |-> now]

EdgeRecord(source_id, target_id, kind, file_path, line) ==
    [source_id |-> source_id, target_id |-> target_id, kind |-> kind,
     file_path |-> file_path, line |-> line]

IndexedFile(file_path, fhash, indexed_at, node_count) ==
    [file_path |-> file_path, file_hash |-> fhash, indexed_at |-> indexed_at,
     node_count |-> node_count]

\* str.removesuffix(".py") on the file names of Files
removesuffix_py(s) ==
    CASE s = "a.py" -> "a"
      [] s = "b.py" -> "b"
      [] s = "__init__.py" -> "__init__"
      [] OTHER -> s

_module_id_from_path(file_path, root) ==
    LET rel == SubSeq(file_path, Len(root) + 1, Len(file_path))
        leaf == rel[Len(rel)]
    IN IF leaf = "__init__.py"
       THEN SubSeq(rel, 1, Len(rel) - 1)
       ELSE [rel EXCEPT ![Len(rel)] = removesuffix_py(leaf)]

IsDefinition(s) == s.type \in {"function_definition", "class_definition"}

\* the unwrapping of a decorated_definition done by both walks
Actual(child) ==
    IF child.type = "decorated_definition" /\ SelectSeq(child.body, IsDefinition) # <<>>
    THEN Head(SelectSeq(child.body, IsDefinition))
    ELSE child

_extract_decorators(node) ==
    IF node.type = "decorated_definition" THEN node.extra ELSE <<>>

RECURSIVE _extract_symbols(_, _, _, _, _, _)
_extract_symbols(children, parent_type, parent_id, file_path, fhash, now) ==
    IF children = <<>> THEN [nodes |-> <<>>, edges |-> <<>>]
    ELSE
    LET child == Head(children)
        decorators == _extract_decorators(child)
        actual == Actual(child)
        node_id == parent_id \o <<actual.name>>
        sub == _extract_symbols(actual.body, "block", node_id, file_path, fhash, now)
        here ==
            IF actual.type = "function_definition" THEN
                [nodes |-> <<NodeRecord(node_id,
                                        IF parent_type = "block" THEN "method" ELSE "function",
                                        actual.name, file_path, actual.line, actual.line_end,
                                        parent_id, decorators, fhash, now)>> \o sub.nodes,
                 edges |-> [i \in 1..Len(decorators) |->
                               EdgeRecord(node_id, decorators[i].head, "decorates",
                                          file_path, actual.line)] \o sub.edges]
            ELSE IF actual.type = "class_definition" THEN
                [nodes |-> <<NodeRecord(node_id, "class", actual.name, file_path,
                                        actual.line, actual.line_end, parent_id,
                                        decorators, fhash, now)>> \o sub.nodes,
                 edges |-> [i \in 1..Len(actual.extra) |->
                               EdgeRecord(node_id, <<actual.extra[i]>>, "inherits",
                                          file_path, actual.line)] \o sub.edges]
            ELSE [nodes |-> <<>>, edges |-> <<>>]
        rest == _extract_symbols(Tail(children), parent_type, parent_id, file_path, fhash, now)
    IN [nodes |-> here.nodes \o rest.nodes, edges |-> here.edges \o rest.edges]

RECURSIVE _extract_imports(_, _, _)
_extract_imports(children, module_id, file_path) ==
    IF children = <<>> THEN <<>>
    ELSE
    LET child == Head(children)
        here ==
            IF child.type = "import_statement" THEN
                [i \in 1..Len(child.extra) |->
                    EdgeRecord(module_id, child.extra[i], "imports", file_path, child.line)]
            ELSE IF child.type = "import_from_statement" THEN
                IF child.extra = <<>>
                THEN <<EdgeRecord(module_id, child.text, "imports", file_path, child.line)>>
                ELSE [i \in 1..Len(child.extra) |->
                        EdgeRecord(module_id, child.text \o child.extra[i], "imports",
                                   file_path, child.line)]
            ELSE <<>>
    IN here \o _extract_imports(Tail(children), module_id, file_path)

RECURSIVE _process_call_nodes(_, _, _)
RECURSIVE ProcessCallChildren(_, _, _)
_process_call_nodes(node, scope_id, file_path) ==
    (IF node.type = "call"
     THEN <<EdgeRecord(scope_id, node.text, "calls", file_path, node.line)>>
     ELSE <<>>) \o ProcessCallChildren(node.body, scope_id, file_path)

\* for child in node.children: self._process_call_nodes(child, ...)
ProcessCallChildren(children, scope_id, file_path) ==
    IF children = <<>> THEN <<>>
    ELSE _process_call_nodes(Head(children), scope_id, file_path)
         \o ProcessCallChildren(Tail(children), scope_id, file_path)

RECURSIVE _walk_calls(_, _, _)
_walk_calls(children, scope_id, file_path) ==
    IF children = <<>> THEN <<>>
    ELSE
    LET child == Head(children)
        actual == Actual(child)
        here ==
            IF IsDefinition(actual)
            THEN _walk_calls(actual.body, scope_id \o <<actual.name>>, file_path)
            ELSE (IF child.type = "call"
                     \/ (child.type = "expression_statement" /\ Len(child.body) > 0)
                  THEN _process_call_nodes(child, scope_id, file_path)
                  ELSE <<>>)
                 \o _walk_calls(child.body, scope_id, file_path)
    IN here \o _walk_calls(Tail(children), scope_id, file_path)

\* index_file, lines 106-134: the node list and the edge list built from the bytes
Extract(bytes, fp_str, fhash, now) ==
    LET root == Parse(bytes)
        module_id == _module_id_from_path(fp_str, project_root)
        module_node == NodeRecord(module_id, "module", module_id[Len(module_id)], fp_str,
                                  root.line, root.line_end, None, <<>>, fhash, now)
        syms == _extract_symbols(root.body, "module", module_id, fp_str, fhash, now)
    IN [nodes |-> <<module_node>> \o syms.nodes,
        edges |-> syms.edges \o _extract_imports(root.body, module_id, fp_str)
                             \o _walk_calls(root.body, module_id, fp_str)]

Range(seq) == {seq[i] : i \in 1..Len(seq)}

----------------------------------------------------------------------------
(* indexer.py: index_file and remove_file as whole calls *)

\* the comparison of the hashes inverted
HashUnchanged_inverted(d, file_path, fhash) ==
    \E existing \in get_indexed_file(d, file_path) : existing.file_hash # fhash

\* existing = self.db.get_indexed_file(fp_str); existing and existing.file_hash == fhash
HashUnchanged(d, file_path, fhash) ==
    \E existing \in get_indexed_file(d, file_path) : existing.file_hash = fhash

\* outcome: "OSError" (the file cannot be read), "skip", "ok", or
\* "IntegrityError" (the store rejected a batch; the call raised)
index_file(d, dsk, file_path, force, now) ==
    IF dsk[file_path] = 0
    THEN [db |-> d, outcome |-> "OSError", ret |-> {}, ret_len |-> 0]
    ELSE
    LET fhash == Sha256(dsk[file_path])
        x == Extract(dsk[file_path], file_path, fhash, now)
        d1 == delete_nodes_for_file(d, file_path)
        d2 == delete_edges_for_file(d1, file_path)
        r3 == upsert_nodes(d2, x.nodes)
        r4 == upsert_edges(r3.db, x.edges)
        d5 == upsert_indexed_file(r4.db, IndexedFile(file_path, fhash, now, Len(x.nodes)))
    IN IF ~force /\ HashUnchanged(d, file_path, fhash)
       THEN [db |-> d, outcome |-> "skip", ret |-> list_nodes(d, file_path),
             ret_len |-> Cardinality(list_nodes(d, file_path))]
       ELSE IF ~r3.ok
       THEN [db |-> r3.db, outcome |-> "IntegrityError", ret |-> {}, ret_len |-> 0]
       ELSE IF ~r4.ok
       THEN [db |-> r4.db, outcome |-> "IntegrityError", ret |-> {}, ret_len |-> 0]
       ELSE [db |-> d5, outcome |-> "ok", ret |-> Range(x.nodes), ret_len |-> Len(x.nodes)]

\* remove_file without its delete_indexed_file call
remove_file_keeps_indexed_file(d, file_path) ==
    delete_edges_for_file(delete_nodes_for_file(d, file_path), file_path)

remove_file(d, file_path) ==
    delete_indexed_file(delete_edges_for_file(delete_nodes_for_file(d, file_path), file_path),
                        file_path)

----------------------------------------------------------------------------
(* State *)

NoCall == [op |-> "none", path |-> <<>>, force |-> FALSE, had_rows |-> FALSE,
           outcome |-> "none", ret |-> {}, ret_len |-> 0, raised |-> FALSE]

NoTimer == [state |-> "unused", path |-> <<>>, action |-> "none", deadline |-> 0,
            pc |-> "none", fhash |-> Sha256(0), source |-> 0, now |-> 0,
            pre |-> <<>>, outcome |-> "none"]

NoHistory == [events |-> 0, last_event |-> 0, last_action |-> "none", burst |-> TRUE,
              started |-> 0, early |-> FALSE, wrong_action |-> FALSE]

\* ProjectWatcher.__init__: Observer() not started, _running False
\* scheduled: the calls of observer.schedule made; calls, call, outcome: the
\* start()/stop() calls made and the last of them; held: the timers that were
\* scheduled and had not begun their action when stop() was last called
NewWatcher == [running |-> FALSE, observer |-> "new", scheduled |-> 0, calls |-> 0,
               call |-> "none", outcome |-> "none", held |-> {}]

\* create_app with no database given: dbs = {} and no app._db attribute.  The
\* entry of NoRoot stands for the attribute app._db of the requests naming no root
Roots == {"/proj", "/other"}

NoRoot == ""

NoDbs == [root \in Roots \cup {NoRoot} |-> 0]

Requests == 1..MaxRequests

\* a request that has not arrived.  made: the Database this request constructed
\* (a Database is named by the request that constructed it), got: the one
\* _get_db returned to it; watcher: the ProjectWatcher this request created
\* ("none", "created", "indexed", "started"); reply: the message of its response
NoRequest == [pc |-> "none", root |-> NoRoot, made |-> 0, got |-> 0,
              watcher |-> "none", reply |-> "none"]

\* create_app: projects = {}
NoProjects == [root \in Roots |-> 0]

\* generate_resume has not been called
NoResume == [budget |-> 0, since |-> 0, offered |-> <<>>, sections |-> <<>>,
             used |-> 0]

\* no query has been called
NoReturn == [op |-> "none", args |-> <<>>, value |-> <<>>]

Init ==
    /\ disk = [p \in Files |-> 0]
    /\ db = EmptyDb
    /\ clock = 0
    /\ last = NoCall
    /\ pending = [p \in Files |-> 0]
    /\ timers = [t \in 1..MaxTimers |-> NoTimer]
    /\ history = [p \in Files |-> NoHistory]
    /\ watcher = NewWatcher
    /\ dbs = NoDbs
    /\ requests = [r \in Requests |-> NoRequest]
    /\ resume = NoResume
    /\ returned = NoReturn
    /\ projects = NoProjects

\* time passes
Tick ==
    /\ clock < MaxClock
    /\ clock' = clock + 1
    /\ last' = [NoCall EXCEPT !.raised = last.raised]
    /\ UNCHANGED <<disk, db, pending, timers, history, watcher, dbs, requests, resume, returned, projects>>

----------------------------------------------------------------------------
(* The indexer called directly, one call at a time *)

\* the environment writes bytes to a file of the project
WriteFile(p, c) ==
    /\ disk' = [disk EXCEPT ![p] = c]
    /\ last' = [NoCall EXCEPT !.raised = last.raised]
    /\ UNCHANGED <<db, clock, pending, timers, history, watcher, dbs, requests, resume, returned, projects>>

\* the environment deletes a file
Unlink(p) ==
    /\ disk[p] # 0
    /\ disk' = [disk EXCEPT ![p] = 0]
    /\ last' = [NoCall EXCEPT !.raised = last.raised]
    /\ UNCHANGED <<db, clock, pending, timers, history, watcher, dbs, requests, resume, returned, projects>>

IndexFile(p, force) ==
    LET r == index_file(db, disk, p, force, clock)
    IN /\ db' = r.db
       /\ last' = [op |-> "index_file", path |-> p, force |-> force,
                   had_rows |-> HasRows(db, p), outcome |-> r.outcome,
                   ret |-> r.ret, ret_len |-> r.ret_len,
                   raised |-> last.raised \/ r.outcome \notin {"ok", "skip"}]
       /\ UNCHANGED <<disk, clock, pending, timers, history, watcher, dbs, requests, resume, returned, projects>>

RemoveFile(p) ==
    /\ db' = remove_file(db, p)
    /\ last' = [op |-> "remove_file", path |-> p, force |-> FALSE,
                had_rows |-> HasRows(db, p), outcome |-> "ok", ret |-> {}, ret_len |-> 0,
                raised |-> last.raised]
    /\ UNCHANGED <<disk, clock, pending, timers, history, watcher, dbs, requests, resume, returned, projects>>

SeqNext ==
    \/ Tick
    \/ \E p \in Files, c \in Contents : WriteFile(p, c)
    \/ \E p \in Files : Unlink(p)
    \/ \E p \in Files, force \in BOOLEAN : IndexFile(p, force)
    \/ \E p \in Files : RemoveFile(p)

SeqSpec == Init /\ [][SeqNext]_vars

----------------------------------------------------------------------------
(* watcher.py: _DebouncedHandler.  Each `with self._lock:` block is one     *)
(* step.  A threading.Timer sleeps for `delay`, then, unless cancel() was   *)
(* called meanwhile, calls _run on its own thread.  One clock unit is       *)
(* 250 ms.                                                                  *)

Delay == 2

_IGNORE_DIRS == {".venv", "__pycache__", ".context_graph", "node_modules", ".git"}

\* str.startswith(".") on the path segments of the model
startswith_dot(seg) == seg \in {".venv", ".context_graph", ".git", ".config"}

\* str.endswith(".py") on the file names of the model
endswith_py(seg) == seg \in {"a.py", "b.py", "__init__.py"}

_should_ignore(path) ==
    \E i \in 1..Len(path) : path[i] \in _IGNORE_DIRS \/ startswith_dot(path[i])

TimerIds == 1..MaxTimers

Unused == {t \in TimerIds : timers[t].state = "unused"}

\* an indexer action begun by a timer and not yet finished
Executing(t) == timers[t].state = "running"

\* an except clause that names ValueError alone
Caught_only_ValueError == {"ValueError"}

\* _run: except (OSError, ValueError): pass, around index_file
Caught == {"OSError", "ValueError"}

\* _run is over: it returned ("done"), or an exception left it ("died")
Finished(t, outcome) ==
    [NoTimer EXCEPT !.state = IF outcome \in {"ok", "skip"} \cup Caught
                              THEN "done" ELSE "died",
                    !.path = timers[t].path,
                    !.action = timers[t].action, !.outcome = outcome]

\* a cancel() that does not stop the timer
cancel_has_no_effect(tmrs, t) == tmrs

\* threading.Timer.cancel(): stops the timer if it is still sleeping
cancel(tmrs, t) ==
    IF tmrs[t].state = "waiting" THEN [tmrs EXCEPT ![t].state = "cancelled"] ELSE tmrs

_schedule(path, action) ==
    /\ Unused # {}
    /\ clock + Delay <= MaxTime
    /\ LET new == CHOOSE t \in Unused : \A u \in Unused : t <= u
           old == pending[path]
           cancelled == IF old # 0 THEN cancel(timers, old) ELSE timers
           h == history[path]
       IN /\ timers' = [cancelled EXCEPT ![new] =
                           [NoTimer EXCEPT !.state = "waiting", !.path = path,
                                           !.action = action, !.deadline = clock + Delay]]
          /\ pending' = [pending EXCEPT ![path] = new]
          /\ history' = [history EXCEPT ![path] =
                           [h EXCEPT !.events = @ + 1, !.last_event = clock,
                                     !.last_action = action,
                                     !.burst = @ /\ (h.events = 0 \/ clock - h.last_event < Delay)]]

\* the handler's filter: directories and other files are not scheduled
Handled(p) == endswith_py(p[Len(p)]) /\ ~_should_ignore(p)

on_created(p, c) ==
    /\ disk[p] = 0
    /\ Handled(p)
    /\ disk' = [disk EXCEPT ![p] = c]
    /\ _schedule(p, "index")
    /\ UNCHANGED <<db, clock, last, watcher, dbs, requests, resume, returned, projects>>

on_modified(p, c) ==
    /\ disk[p] # 0
    /\ Handled(p)
    /\ disk' = [disk EXCEPT ![p] = c]
    /\ _schedule(p, "index")
    /\ UNCHANGED <<db, clock, last, watcher, dbs, requests, resume, returned, projects>>

on_deleted(p) ==
    /\ disk[p] # 0
    /\ Handled(p)
    /\ disk' = [disk EXCEPT ![p] = 0]
    /\ _schedule(p, "delete")
    /\ UNCHANGED <<db, clock, last, watcher, dbs, requests, resume, returned, projects>>

\* threading.Timer.run: the sleep is over and cancel() has not been called
Wake(t) ==
    /\ timers[t].state = "waiting"
    /\ clock >= timers[t].deadline
    /\ timers' = [timers EXCEPT ![t].state = "fired"]
    /\ UNCHANGED <<disk, db, clock, last, pending, history, watcher, dbs, requests, resume, returned, projects>>

\* _run: self._pending.pop(path, None) under the lock, then the indexer action begins
Pop(t) ==
    /\ timers[t].state = "fired"
    /\ LET p == timers[t].path
           h == history[p]
       IN /\ pending' = [pending EXCEPT ![p] = 0]
          /\ timers' = [timers EXCEPT ![t].state = "running",
                                      ![t].pre = View(db, p),
                                      ![t].pc = IF timers[t].action = "delete"
                                                THEN "rm_nodes" ELSE "hash"]
          /\ history' = [history EXCEPT ![p] =
                           [h EXCEPT !.started = @ + 1,
                                     !.early = @ \/ clock < h.last_event + Delay,
                                     !.wrong_action = @ \/ timers[t].action # h.last_action]]
    /\ UNCHANGED <<disk, db, clock, last, watcher, dbs, requests, resume, returned, projects>>

At(t, pc) == timers[t].state = "running" /\ timers[t].pc = pc

Goto(t, pc) == timers' = [timers EXCEPT ![t].pc = pc]

Finish(t, outcome) == timers' = [timers EXCEPT ![t] = Finished(t, outcome)]

\* fhash = file_hash(file_path); an OSError is swallowed by _run
IdxHash(t) ==
    /\ At(t, "hash")
    /\ IF disk[timers[t].path] = 0
       THEN Finish(t, "OSError")
       ELSE timers' = [timers EXCEPT ![t].pc = "check",
                                     ![t].fhash = Sha256(disk[timers[t].path])]
    /\ UNCHANGED <<disk, db, clock, last, pending, history, watcher, dbs, requests, resume, returned, projects>>

\* existing = self.db.get_indexed_file(fp_str); equal hash: return list_nodes
IdxCheck(t) ==
    /\ At(t, "check")
    /\ IF HashUnchanged(db, timers[t].path, timers[t].fhash)
       THEN Finish(t, "skip")
       ELSE Goto(t, "read")
    /\ UNCHANGED <<disk, db, clock, last, pending, history, watcher, dbs, requests, resume, returned, projects>>

\* source = file_path.read_bytes(); tree = parse(source); now = time.time()
IdxRead(t) ==
    /\ At(t, "read")
    /\ IF disk[timers[t].path] = 0
       THEN Finish(t, "OSError")
       ELSE timers' = [timers EXCEPT ![t].pc = "delete_nodes",
                                     ![t].source = disk[timers[t].path],
                                     ![t].now = clock]
    /\ UNCHANGED <<disk, db, clock, last, pending, history, watcher, dbs, requests, resume, returned, projects>>

\* the lists index_file builds from what this thread has read
Extracted(t) == Extract(timers[t].source, timers[t].path, timers[t].fhash, timers[t].now)

IdxDeleteNodes(t) ==
    /\ At(t, "delete_nodes")
    /\ db' = delete_nodes_for_file(db, timers[t].path)
    /\ Goto(t, "delete_edges")
    /\ UNCHANGED <<disk, clock, last, pending, history, watcher, dbs, requests, resume, returned, projects>>

IdxDeleteEdges(t) ==
    /\ At(t, "delete_edges")
    /\ db' = delete_edges_for_file(db, timers[t].path)
    /\ Goto(t, "upsert_nodes")
    /\ UNCHANGED <<disk, clock, last, pending, history, watcher, dbs, requests, resume, returned, projects>>

IdxUpsertNodes(t) ==
    /\ At(t, "upsert_nodes")
    /\ LET r == upsert_nodes(db, Extracted(t).nodes)
       IN /\ db' = r.db
          /\ IF r.ok THEN Goto(t, "upsert_edges") ELSE Finish(t, "IntegrityError")
    /\ UNCHANGED <<disk, clock, last, pending, history, watcher, dbs, requests, resume, returned, projects>>

IdxUpsertEdges(t) ==
    /\ At(t, "upsert_edges")
    /\ LET r == upsert_edges(db, Extracted(t).edges)
       IN /\ db' = r.db
          /\ IF r.ok THEN Goto(t, "upsert_indexed_file") ELSE Finish(t, "IntegrityError")
    /\ UNCHANGED <<disk, clock, last, pending, history, watcher, dbs, requests, resume, returned, projects>>

IdxUpsertIndexedFile(t) ==
    /\ At(t, "upsert_indexed_file")
    /\ db' = upsert_indexed_file(db, IndexedFile(timers[t].path, timers[t].fhash,
                                                  timers[t].now, Len(Extracted(t).nodes)))
    /\ Finish(t, "ok")
    /\ UNCHANGED <<disk, clock, last, pending, history, watcher, dbs, requests, resume, returned, projects>>

RmDeleteNodes(t) ==
    /\ At(t, "rm_nodes")
    /\ db' = delete_nodes_for_file(db, timers[t].path)
    /\ Goto(t, "rm_edges")
    /\ UNCHANGED <<disk, clock, last, pending, history, watcher, dbs, requests, resume, returned, projects>>

RmDeleteEdges(t) ==
    /\ At(t, "rm_edges")
    /\ db' = delete_edges_for_file(db, timers[t].path)
    /\ Goto(t, "rm_indexed_file")
    /\ UNCHANGED <<disk, clock, last, pending, history, watcher, dbs, requests, resume, returned, projects>>

RmDeleteIndexedFile(t) ==
    /\ At(t, "rm_indexed_file")
    /\ db' = delete_indexed_file(db, timers[t].path)
    /\ Finish(t, "ok")
    /\ UNCHANGED <<disk, clock, last, pending, history, watcher, dbs, requests, resume, returned, projects>>

\* time passes while the watcher runs
Elapse ==
    /\ clock < MaxTime
    /\ clock' = clock + 1
    /\ UNCHANGED <<disk, db, last, pending, timers, history, watcher, dbs, requests, resume, returned, projects>>

WatchContents == {1, 3}

WatcherNext ==
    \/ Elapse
    \/ \E p \in Files, c \in WatchContents : on_created(p, c)
    \/ \E p \in Files, c \in WatchContents : on_modified(p, c)
    \/ \E p \in Files : on_deleted(p)
    \/ \E t \in TimerIds : Wake(t)
    \/ \E t \in TimerIds : Pop(t)
    \/ \E t \in TimerIds : IdxHash(t)
    \/ \E t \in TimerIds : IdxCheck(t)
    \/ \E t \in TimerIds : IdxRead(t)
    \/ \E t \in TimerIds : IdxDeleteNodes(t)
    \/ \E t \in TimerIds : IdxDeleteEdges(t)
    \/ \E t \in TimerIds : IdxUpsertNodes(t)
    \/ \E t \in TimerIds : IdxUpsertEdges(t)
    \/ \E t \in TimerIds : IdxUpsertIndexedFile(t)
    \/ \E t \in TimerIds : RmDeleteNodes(t)
    \/ \E t \in TimerIds : RmDeleteEdges(t)
    \/ \E t \in TimerIds : RmDeleteIndexedFile(t)

WatcherSpec == Init /\ [][WatcherNext]_vars

----------------------------------------------------------------------------
(* The watcher with each indexer action taken as one step: the timing of    *)
(* the debounce does not depend on the steps inside an action.              *)

\* _run: self.indexer.index_file(path), except (OSError, ValueError): pass
RunIndex(t) ==
    /\ At(t, "hash")
    /\ LET r == index_file(db, disk, timers[t].path, FALSE, clock)
       IN /\ db' = r.db
          /\ Finish(t, r.outcome)
    /\ UNCHANGED <<disk, clock, last, pending, history, watcher, dbs, requests, resume, returned, projects>>

\* _run: self.indexer.remove_file(path)
RunRemove(t) ==
    /\ At(t, "rm_nodes")
    /\ db' = remove_file(db, timers[t].path)
    /\ Finish(t, "ok")
    /\ UNCHANGED <<disk, clock, last, pending, history, watcher, dbs, requests, resume, returned, projects>>

DebounceNext ==
    \/ Elapse
    \/ \E p \in Files, c \in WatchContents : on_created(p, c)
    \/ \E p \in Files, c \in WatchContents : on_modified(p, c)
    \/ \E p \in Files : on_deleted(p)
    \/ \E t \in TimerIds : Wake(t)
    \/ \E t \in TimerIds : Pop(t)
    \/ \E t \in TimerIds : RunIndex(t)
    \/ \E t \in TimerIds : RunRemove(t)

\* time passes, and a timer thread whose sleep is over is eventually scheduled and
\* eventually obtains the lock
DebounceSpec ==
    /\ Init
    /\ [][DebounceNext]_vars
    /\ WF_vars(Elapse)
    /\ \A t \in TimerIds : WF_vars(Wake(t)) /\ WF_vars(Pop(t))

----------------------------------------------------------------------------
(* Claims *)

\* a node row without its timestamp
Strip(n) == [n EXCEPT !.indexed_at = 0]

\* the rows that indexing `bytes` as `file_path` writes into an empty store
Derived(bytes, file_path) ==
    LET x == Extract(bytes, file_path, Sha256(bytes), 0)
        r3 == upsert_nodes(EmptyDb, x.nodes)
        r4 == upsert_edges(r3.db, x.edges)
    IN [nodes |-> r3.db.nodes, edges |-> r4.db.edges]

\* the rows stored for p in d are the rows derived from the bytes of p in dsk
Matches(d, dsk, p) ==
    /\ {Strip(n) : n \in list_nodes(d, p)} = Derived(dsk[p], p).nodes
    /\ get_edges_for_file(d, p) = Derived(dsk[p], p).edges

StoredMatchesDisk(p) == Matches(db, disk, p)

\* the positions of index_file after the source has been read
RewritePcs == {"delete_nodes", "delete_edges", "upsert_nodes", "upsert_edges",
               "upsert_indexed_file"}

\* what the store holds for the file of thread t once its index_file has returned
PostView(t) ==
    LET x == Extracted(t)
        r3 == upsert_nodes(EmptyDb, x.nodes)
        r4 == upsert_edges(r3.db, x.edges)
    IN [nodes |-> r3.db.nodes, edges |-> r4.db.edges,
        indexed_file |-> {IndexedFile(timers[t].path, timers[t].fhash, timers[t].now,
                                      Len(x.nodes))}]

\* no other thread has begun an indexer action
OnlyWriter(t) ==
    \A u \in TimerIds \ {t} : timers[u].state \in {"unused", "waiting", "cancelled", "fired"}

\* C1: while index_file(P) runs its purge-and-rewrite, a reader of the store sees
\* for P either the complete state before the call or the complete state after it.
C1_ReaderSeesPreOrPost ==
    \A t \in TimerIds :
        (Executing(t) /\ timers[t].action = "index" /\ OnlyWriter(t))
        => \/ View(db, timers[t].path) = timers[t].pre
           \/ timers[t].pc \in RewritePcs /\ View(db, timers[t].path) = PostView(t)

\* C2: after index_file(P) returns (skip path or rewrite path, after any sequence of
\* index_file/remove_file calls), the node and edge rows with file_path = P are
\* exactly the rows derived from the bytes now at P.
C2_RowsEqualDerived ==
    (last.op = "index_file" /\ last.outcome \in {"ok", "skip"})
    => StoredMatchesDisk(last.path)

\* C3: if an IndexedFile row for P holds the hash of P's current bytes and force is
\* false, index_file(P) writes nothing (indexed_at included) and returns the node
\* rows stored for P.
C3_SkipWritesNothing ==
    [][\A p \in Files :
          (/\ last'.op = "index_file" /\ last'.path = p /\ ~last'.force
           /\ disk[p] # 0
           /\ \E f \in db.indexed_files : f.file_path = p /\ f.file_hash = Sha256(disk[p]))
          => (db' = db /\ last'.outcome = "skip" /\ last'.ret = list_nodes(db, p))]_vars

C3_Witness ==
    /\ last.op = "index_file" /\ last.outcome = "skip" /\ ~last.force
    /\ last.ret # {}
    /\ last.ret = list_nodes(db, last.path)

\* C4: no two indexer invocations started by watcher timers for the same path are
\* executing at the same time.
C4_OnePerPath ==
    \A t, u \in TimerIds :
        (t # u /\ Executing(t) /\ Executing(u)) => timers[t].path # timers[u].path

\* C5: no two indexer actions started by expired timers overlap, whatever their
\* paths, and the path-to-pending-timer map is not mutated by _schedule while an
\* action is executing.
C5_Serialized ==
    [][/\ Cardinality({t \in TimerIds : timers'[t].state = "running"}) <= 1
       /\ (\E t \in TimerIds : Executing(t))
          => \A p \in Files : history'[p].events = history[p].events]_vars

\* the timers created for path p, in the order of their creation
TimersOf(p) == {t \in TimerIds : timers[t].state # "unused" /\ timers[t].path = p}

\* C6: for events on one path that each arrive less than the delay after the
\* previous one, every earlier timer is cancelled and exactly one indexer action
\* runs for the path; it starts no earlier than the delay after the last event and
\* is remove_file if the last event was a deletion, index_file otherwise.
C6_Debounce ==
    /\ [](\A p \in Files :
            history[p].burst =>
               /\ history[p].started <= 1
               /\ ~history[p].early
               /\ ~history[p].wrong_action
               /\ \A t, u \in TimersOf(p) : t < u => timers[t].state = "cancelled")
    /\ \A p \in Files :
          (history[p].events > 0 /\ history[p].burst)
             ~> (~history[p].burst \/ history[p].started = 1)

\* a burst of events ending in a deletion, after which remove_file has run once
C6_Witness ==
    \E p \in Files :
        /\ history[p].burst /\ history[p].events >= 2 /\ history[p].started = 1
        /\ history[p].last_action = "delete"
        /\ \E t \in TimersOf(p) : timers[t].state = "done" /\ timers[t].action = "delete"
        /\ \E t \in TimersOf(p) : timers[t].state = "cancelled"

\* no timer is sleeping, about to run or running
Quiescent ==
    \A t \in TimerIds : timers[t].state \in {"unused", "cancelled", "done", "died"}

\* C7: once changes have stopped and every pending timer has fired, every file that
\* was created or modified has an IndexedFile row with the hash of its bytes and the
\* node rows derived from them, and every deleted file has no row at all.
C7_StoreAgreesWithDisk ==
    Quiescent =>
       \A p \in Files :
          history[p].events > 0 =>
             IF disk[p] # 0
             THEN /\ \E f \in get_indexed_file(db, p) : f.file_hash = Sha256(disk[p])
                  /\ {Strip(n) : n \in list_nodes(db, p)} = Derived(disk[p], p).nodes
             ELSE ~HasRows(db, p)

\* C8: after remove_file(P) no node, edge or IndexedFile row has file_path = P; an
\* index_file(P) that follows on the same bytes is not skipped and writes P's rows
\* again; remove_file on a path without rows changes nothing.
C8_RemoveFilePurges ==
    [][/\ last'.op = "remove_file" => ~HasRows(db', last'.path)
       /\ (last'.op = "remove_file" /\ ~HasRows(db, last'.path)) => db' = db
       /\ (/\ last.op = "remove_file" /\ last'.op = "index_file"
           /\ last'.path = last.path /\ ~last'.force /\ disk[last.path] # 0)
          => /\ last'.outcome \in {"ok", "IntegrityError"}
             /\ {Strip(n) : n \in list_nodes(db', last.path)}
                    = Derived(disk[last.path], last.path).nodes
             /\ last'.outcome = "ok" => Matches(db', disk, last.path)]_vars

C8_Witness ==
    /\ last.op = "remove_file" /\ last.had_rows
    /\ disk[last.path] # 0
    /\ ~HasRows(db, last.path)

\* C9: there is at most one edge row per (source_id, target_id, kind); upserting an
\* edge whose triple exists adds no row, does not fail, and replaces the row's
\* file_path and line.
C9_EdgeUnique ==
    /\ \A e, f \in db.edges : SameTriple(e, f) => e = f
    /\ \A e \in db.edges, p \in Files, l \in {f.line : f \in db.edges} :
          LET new == [e EXCEPT !.file_path = p, !.line = l]
              r == upsert_edge(db, new)
          IN /\ r.ok
             /\ Cardinality(r.db.edges) = Cardinality(db.edges)
             /\ r.db.edges = (db.edges \ {e}) \cup {new}

\* the call edge of a.f written at line 7 and upserted again, in one batch, at line 9
C9_Witness ==
    LET hits == {e \in db.edges : e.source_id = <<"a", "f">> /\ e.target_id = <<"g">>
                                   /\ e.kind = "calls"}
    IN \E e \in hits : e.line = 9 /\ hits = {e}

\* C10: after completed index_file/remove_file calls, every node with a parent_id
\* has a parent row with the same file_path, and every node but a module has a
\* parent_id.
C10_ParentChain ==
    ~last.raised =>
    \A n \in db.nodes :
        /\ n.parent_id # None
           => \E m \in get_node(db, n.parent_id) : m.file_path = n.file_path
        /\ n.kind # "module" => n.parent_id # None

\* C11: after completed index_file/remove_file calls, every node row's file_hash is
\* the file_hash of the IndexedFile row of the node's file_path, and that row exists.
C11_NodeHashMatchesIndexedFile ==
    ~last.raised =>
    \A n \in db.nodes :
        /\ get_indexed_file(db, n.file_path) # {}
        /\ \A f \in get_indexed_file(db, n.file_path) : f.file_hash = n.file_hash

\* a file with rows has been indexed again after its bytes changed
C11_Witness ==
    /\ last.op = "index_file" /\ last.outcome = "ok" /\ last.had_rows /\ ~last.raised
    /\ ~last.force
    /\ \E n \in list_nodes(db, last.path) : n.file_hash = Sha256(disk[last.path])

\* C12: deleting node rows, directly or by cascade, removes no edge row; only
\* delete_edges_for_file removes edge rows.
C12_NodeDeletionKeepsEdges ==
    \A p \in Files : delete_nodes_for_file(db, p).edges = db.edges

\* node n is one of ids or has one of them among its ancestors, at most k levels up
RECURSIVE IsUnder(_, _, _, _)
IsUnder(nodes, n, ids, k) ==
    \/ n.id \in ids
    \/ /\ k > 0
       /\ \E m \in nodes : m.id = n.parent_id /\ IsUnder(nodes, m, ids, k - 1)

\* C13: delete_nodes_for_file(P) removes every node of P and every transitive
\* descendant of a removed node; no remaining node names a removed node as its
\* parent, and all other nodes are unchanged.
C13_DeleteCascades ==
    \A p \in Files :
        LET after == delete_nodes_for_file(db, p)
            gone == {n \in db.nodes :
                        IsUnder(db.nodes, n, {m.id : m \in list_nodes(db, p)},
                                Cardinality(db.nodes))}
        IN /\ list_nodes(after, p) = {}
           /\ after.nodes = db.nodes \ gone
           /\ \A n \in after.nodes : n.parent_id \notin {g.id : g \in gone}

\* the delete takes a grandchild recorded under another file with it
C13_Witness ==
    \E p \in Files :
        \E n \in db.nodes :
            /\ n.file_path # p
            /\ Len(n.id) = 3
            /\ n.id \notin NodeIds(delete_nodes_for_file(db, p))

----------------------------------------------------------------------------
(* Observations next to the indexer: notes are added between indexer calls *)

Observation(content, created_at, node_id, tags, source) ==
    [id |-> 0, content |-> content, created_at |-> created_at, node_id |-> node_id,
     tags |-> tags, source |-> source]

\* INSERT INTO observations: AUTOINCREMENT id; sqlite3.IntegrityError (nothing
\* written) when node_id names no node row
add_observation(d, obs) ==
    IF obs.node_id # None /\ obs.node_id \notin NodeIds(d)
    THEN d
    ELSE [d EXCEPT !.observations =
             @ \cup {[obs EXCEPT !.id = Cardinality(d.observations) + 1]}]

\* the node ids a note is attached to: the rows of the store and one that is not there
NoteTargets == NodeIds(db) \cup {None, <<"zz">>}

\* ObservationStore.add(content, node_id): tags [], source "user", created_at now
AddObservation(node_id) ==
    /\ Cardinality(db.observations) < MaxObs
    /\ db' = add_observation(db, Observation(IF node_id = None THEN "general note"
                                                              ELSE "note on a node",
                                             clock, node_id, <<>>, "user"))
    /\ last' = [NoCall EXCEPT !.raised = last.raised]
    /\ UNCHANGED <<disk, clock, pending, timers, history, watcher, dbs, requests, resume, returned, projects>>

ObsNext ==
    \/ \E p \in Files, c \in Contents : WriteFile(p, c)
    \/ \E p \in Files : Unlink(p)
    \/ \E p \in Files, force \in BOOLEAN : IndexFile(p, force)
    \/ \E p \in Files : RemoveFile(p)
    \/ \E node_id \in NoteTargets : AddObservation(node_id)

ObsSpec == Init /\ [][ObsNext]_vars

\* the node ids that delete_nodes_for_file(p) removes from d
RemovedBy(d, p) == NodeIds(d) \ NodeIds(delete_nodes_for_file(d, p))

\* C14: index_file and remove_file (and the node deletions they make) keep every
\* observation row with its content, tags, source and created_at; node_id becomes
\* null exactly when the node it named was removed.
C14_ObservationsKept ==
    [][(last'.op \in {"index_file", "remove_file"}) =>
          LET purged == IF last'.outcome \in {"skip", "OSError"} THEN {}
                        ELSE RemovedBy(db, last'.path)
          IN db'.observations =
                {IF o.node_id \in purged THEN [o EXCEPT !.node_id = None] ELSE o
                 : o \in db.observations}]_vars

\* a note attached to a node has lost its node to an indexer call and is still there
C14_Witness ==
    /\ last.op \in {"index_file", "remove_file"}
    /\ \E o \in db.observations : o.content = "note on a node" /\ o.node_id = None
    /\ \E o \in db.observations : o.content = "note on a node" /\ o.node_id # None

----------------------------------------------------------------------------
(* indexer.py: index_project *)

\* sorted(root.rglob("*.py")): pathlib orders paths by their parts, "a" before "a.py"
SortedFiles == <<FileInit, FileA>>

\* index_project's filter on the parts of the path relative to `root`
WalkSkipsUnder(root, py_file) ==
    \E i \in Len(root) + 1..Len(py_file) :
        startswith_dot(py_file[i]) \/ py_file[i] \in {"__pycache__", ".venv", "node_modules"}

\* the filter for the project root of the model
WalkSkips(py_file) == WalkSkipsUnder(project_root, py_file)

\* the loop of index_project over the files still to visit; an exception of
\* index_file ends the loop and leaves index_project
RECURSIVE WalkFrom(_, _, _, _, _, _)
WalkFrom(d, dsk, todo, force, now, count) ==
    IF todo = <<>> THEN [db |-> d, outcome |-> "ok", count |-> count]
    ELSE IF WalkSkips(Head(todo)) THEN WalkFrom(d, dsk, Tail(todo), force, now, count)
    ELSE CHOOSE walk \in
             {IF r.outcome \in {"ok", "skip"}
              THEN WalkFrom(r.db, dsk, Tail(todo), force, now, count + 1)
              ELSE [db |-> r.db, outcome |-> r.outcome, count |-> count] :
                  r \in {index_file(d, dsk, Head(todo), force, now)}} : TRUE

\* listing: the disk when rglob lists the files; dsk: the disk while they are indexed
index_project(d, listing, dsk, force, now) ==
    WalkFrom(d, dsk, SelectSeq(SortedFiles, LAMBDA p : listing[p] # 0), force, now, 0)

\* index_project(force); the files of `gone` are deleted after the listing is taken
IndexProject(force, gone) ==
    /\ \A p \in gone : disk[p] # 0
    /\ disk' = [p \in Files |-> IF p \in gone THEN 0 ELSE disk[p]]
    /\ \E r \in {index_project(db, disk, disk', force, clock)} :
          /\ db' = r.db
          /\ last' = [NoCall EXCEPT !.op = "index_project", !.force = force,
                                    !.outcome = r.outcome, !.ret_len = r.count,
                                    !.raised = last.raised \/ r.outcome # "ok"]
    /\ UNCHANGED <<clock, pending, timers, history, watcher, dbs, requests, resume, returned, projects>>

ProjNext ==
    \/ Tick
    \/ \E p \in Files, c \in Contents : WriteFile(p, c)
    \/ \E p \in Files : Unlink(p)
    \/ \E force \in BOOLEAN, gone \in SUBSET Files : IndexProject(force, gone)

ProjSpec == Init /\ [][ProjNext]_vars

\* indexing the bytes of p on their own fails
FailsAlone(p) == index_file(EmptyDb, disk, p, TRUE, 0).outcome # "ok"

\* C15: a file whose indexing fails during index_project does not abort the walk:
\* nothing is recorded for it and every other eligible file is still indexed.
C15_WalkContinues ==
    last.op = "index_project" =>
       /\ last.outcome = "ok"
       /\ \A p \in Files :
             disk[p] # 0 =>
                IF FailsAlone(p)
                THEN \A n \in list_nodes(db, p) : n.file_hash # Sha256(disk[p])
                ELSE \E f \in get_indexed_file(db, p) : f.file_hash = Sha256(disk[p])

\* C16: an I/O failure of the delayed action is swallowed: _run returns, its entry
\* is no longer in the pending map, and a later event (same path or another) still
\* gets its timer, which is cancelled by a newer event or runs.
C16_FailureSwallowed ==
    /\ [](\A t \in TimerIds :
            timers[t].outcome = "OSError"
               => timers[t].state = "done" /\ pending[timers[t].path] # t)
    /\ \A t, u \in TimerIds :
          (t < u /\ timers[t].outcome = "OSError" /\ timers[u].state = "waiting")
             ~> (timers[u].state \in {"cancelled", "running", "done", "died"})

\* an action has failed on a file that was gone, and a later timer's action has run
C16_Witness ==
    \E t, u \in TimerIds :
        /\ t < u
        /\ timers[t].outcome = "OSError" /\ timers[t].state = "done"
        /\ timers[u].state = "done" /\ timers[u].outcome \in {"ok", "skip"}

----------------------------------------------------------------------------
(* watcher.py: ProjectWatcher.  The observer is a threading.Thread: it can  *)
(* be started once, and start() on a thread that was started before raises  *)
(* RuntimeError.  Events reach the handler only while the observer runs.    *)

\* ProjectWatcher.start
Start ==
    /\ watcher.calls < MaxCalls
    /\ watcher' =
          LET w == [watcher EXCEPT !.calls = @ + 1, !.call = "start"]
          IN IF watcher.running
             THEN [w EXCEPT !.outcome = "noop"]
             ELSE IF watcher.observer = "new"
             THEN [w EXCEPT !.scheduled = @ + 1, !.observer = "alive", !.running = TRUE,
                            !.outcome = "ok"]
             ELSE [w EXCEPT !.scheduled = @ + 1, !.outcome = "RuntimeError"]
    /\ UNCHANGED <<disk, db, clock, last, pending, timers, history, dbs, requests, resume, returned, projects>>

\* _DebouncedHandler.cancel_all: cancel every timer of the map, then clear the map
cancel_all(tmrs, pend) ==
    [t \in TimerIds |->
        IF \E p \in Files : pend[p] = t THEN cancel(tmrs, t)[t] ELSE tmrs[t]]

\* the timers that have been scheduled and have not begun their indexer action
NotBegun == {t \in TimerIds : timers[t].state \in {"waiting", "fired"}}

\* ProjectWatcher.stop
Stop ==
    /\ watcher.calls < MaxCalls
    /\ LET w == [watcher EXCEPT !.calls = @ + 1, !.call = "stop"]
       IN IF ~watcher.running
          THEN /\ watcher' = [w EXCEPT !.outcome = "noop"]
               /\ UNCHANGED <<timers, pending>>
          ELSE /\ timers' = cancel_all(timers, pending)
               /\ pending' = [p \in Files |-> 0]
               /\ watcher' = [w EXCEPT !.observer = "stopped", !.running = FALSE,
                                       !.outcome = "ok", !.held = NotBegun]
    /\ UNCHANGED <<disk, db, clock, last, history, dbs, requests, resume, returned, projects>>

\* the observer thread dispatches a file-system event to the handler
Dispatching == watcher.observer = "alive"

LifecycleNext ==
    \/ Start
    \/ Stop
    \/ Elapse
    \/ \E p \in Files, c \in WatchContents : Dispatching /\ on_created(p, c)
    \/ \E p \in Files, c \in WatchContents : Dispatching /\ on_modified(p, c)
    \/ \E p \in Files : Dispatching /\ on_deleted(p)
    \/ \E t \in TimerIds : Wake(t)
    \/ \E t \in TimerIds : Pop(t)
    \/ \E t \in TimerIds : RunIndex(t)
    \/ \E t \in TimerIds : RunRemove(t)

LifecycleSpec == Init /\ [][LifecycleNext]_vars

\* C17: start() schedules and starts the observer and sets running; start() while
\* running changes nothing; stop() clears running; stop() while not running
\* changes nothing; is_running is true after start() and false after stop().
C17_LifecycleIdempotent ==
    [][(watcher'.calls # watcher.calls) =>
          IF watcher'.call = "start"
          THEN /\ watcher'.running
               /\ IF watcher.running
                  THEN /\ watcher'.scheduled = watcher.scheduled
                       /\ watcher'.observer = watcher.observer
                  ELSE /\ watcher'.scheduled = watcher.scheduled + 1
                       /\ watcher'.observer = "alive"
          ELSE /\ ~watcher'.running
               /\ ~watcher.running
                  => /\ watcher'.observer = watcher.observer
                     /\ watcher'.scheduled = watcher.scheduled
                     /\ timers' = timers /\ pending' = pending]_vars

\* C18: after stop() no indexer action begins for a timer scheduled before the
\* call (only an action already executing runs on), and the pending map is empty.
C18_StopCancelsPending ==
    /\ \A t \in watcher.held : timers[t].state \in {"waiting", "fired", "cancelled"}
    /\ (watcher.call = "stop" /\ watcher.outcome = "ok") => \A p \in Files : pending[p] = 0

----------------------------------------------------------------------------
(* create_app._get_db: the cache of per-project databases, with the requests *)
(* of the threaded server interleaved statement by statement                 *)

\* a request arrives and calls _get_db(root); db is None
Arrive(r, root) ==
    /\ requests[r].pc = "none"
    /\ requests' = [requests EXCEPT ![r] = [@ EXCEPT !.pc = "check", !.root = root]]
    /\ UNCHANGED <<disk, db, clock, last, pending, timers, history, watcher, dbs, resume, returned, projects>>

\* if root not in dbs:   /   if not hasattr(app, "_db"):
Check(r) ==
    /\ requests[r].pc = "check"
    /\ requests' = [requests EXCEPT ![r].pc =
                       IF dbs[requests[r].root] = 0 THEN "construct" ELSE "return"]
    /\ UNCHANGED <<disk, db, clock, last, pending, timers, history, watcher, dbs, resume, returned, projects>>

\* mkdir; Database(str(db_path))   /   Database(): the right-hand side
Construct(r) ==
    /\ requests[r].pc = "construct"
    /\ requests' = [requests EXCEPT ![r] = [@ EXCEPT !.pc = "store", !.made = r]]
    /\ UNCHANGED <<disk, db, clock, last, pending, timers, history, watcher, dbs, resume, returned, projects>>

\* dbs[root] = ...   /   app._db = ...: the assignment
StoreDb(r) ==
    /\ requests[r].pc = "store"
    /\ dbs' = [dbs EXCEPT ![requests[r].root] = requests[r].made]
    /\ requests' = [requests EXCEPT ![r].pc = "return"]
    /\ UNCHANGED <<disk, db, clock, last, pending, timers, history, watcher, resume, returned, projects>>

\* return dbs[root]   /   return app._db: the entry as it is now
Return(r) ==
    /\ requests[r].pc = "return"
    /\ requests' = [requests EXCEPT ![r] = [@ EXCEPT !.pc = "done", !.got = dbs[requests[r].root]]]
    /\ UNCHANGED <<disk, db, clock, last, pending, timers, history, watcher, dbs, resume, returned, projects>>

ApiNext ==
    \/ \E r \in Requests, root \in Roots \cup {NoRoot} : Arrive(r, root)
    \/ \E r \in Requests : Check(r)
    \/ \E r \in Requests : Construct(r)
    \/ \E r \in Requests : StoreDb(r)
    \/ \E r \in Requests : Return(r)

ApiSpec == Init /\ [][ApiNext]_vars

\* C19: among the requests that name the same project root, at most one
\* Database is ever constructed for the root and every request is given that one
C19_OneStorePerRoot ==
    \A r1, r2 \in Requests :
        (requests[r1].root = requests[r2].root /\ requests[r1].root \in Roots) =>
            /\ (requests[r1].made # 0 /\ requests[r2].made # 0) => r1 = r2
            /\ (requests[r1].pc = "done" /\ requests[r2].pc = "done") =>
                   requests[r1].got = requests[r2].got
            /\ (requests[r1].pc = "done" /\ requests[r2].made # 0) =>
                   requests[r1].got = requests[r2].made

----------------------------------------------------------------------------
(* resume.py: generate_resume.  A text is carried as its length in          *)
(* characters; a section is its heading and the length of its text          *)

\* len(text) // 4
_estimate_tokens(len) == len \div 4

\* len(text[:stop])
SliceLen(len, stop) ==
    IF stop >= 0
    THEN (IF len < stop THEN len ELSE stop)
    ELSE (IF len + stop > 0 THEN len + stop ELSE 0)

\* len("\n".join(lines)), from the lengths of the lines
RECURSIVE JoinLen(_)
JoinLen(lens) ==
    IF lens = <<>> THEN 0
    ELSE IF Len(lens) = 1 THEN lens[1]
    ELSE lens[1] + 1 + JoinLen(Tail(lens))

\* len(f" [{', '.join(tags)}]"), nothing for no tags
TagsLen(tags) ==
    IF tags = <<>> THEN 0
    ELSE 3 + JoinLen([i \in 1..Len(tags) |-> Len(tags[i])]) + (Len(tags) - 1)

\* len(str(path)) of a path of the project
PathLen(path) ==
    JoinLen([i \in 1..(Len(path) - 1) |-> IF i = 1 THEN 0 ELSE Len(path[i])])
    + 1 + Len(path[Len(path)])

\* the rows with created_at >= since as well
WhereSince_inclusive(d, since, source) ==
    {o \in d.observations :
        o.created_at >= since /\ (source = "None" \/ o.source = source)}

\* FROM observations WHERE created_at > ? [AND source = ?]; "None": source is None
WhereSince(d, since, source) ==
    {o \in d.observations :
        o.created_at > since /\ (source = "None" \/ o.source = source)}

\* limit is None: the statement has no LIMIT clause
NoLimit == 0 - 1

\* SELECT * ... ORDER BY created_at DESC [LIMIT ?]: the lists SQLite may return;
\* the order of rows with equal created_at is not determined by the statement
list_observations_since(d, since, source, limit) ==
    LET rows == WhereSince(d, since, source)
        n == Cardinality(rows)
        ordered == {l \in [1..n -> rows] :
                       /\ \A i, j \in 1..n : l[i] = l[j] => i = j
                       /\ \A i, j \in 1..n : i < j => l[i].created_at >= l[j].created_at}
    IN {SubSeq(l, 1, IF limit = NoLimit \/ limit > n THEN n ELSE limit) : l \in ordered}

\* SELECT * FROM indexed_files WHERE indexed_at > ?
list_recently_indexed_files(d, since) ==
    {f \in d.indexed_files : f.indexed_at > since}

\* ORDER BY created_at DESC / sorted(..., reverse=True), as a sequence
RECURSIVE NewestFirst(_)
NewestFirst(S) ==
    IF S = {} THEN <<>>
    ELSE LET o == CHOOSE x \in S :
                      \A y \in S : \/ x.created_at > y.created_at
                                   \/ x.created_at = y.created_at /\ x.id >= y.id
         IN <<o>> \o NewestFirst(S \ {o})

\* the loop of deduplicate_hook_observations: seen, the dict, is the sequence of
\* its values in the order their keys were inserted
RECURSIVE SeenAfter(_, _)
SeenAfter(observations, seen) ==
    IF observations = <<>> THEN seen
    ELSE LET obs == Head(observations)
         IN SeenAfter(Tail(observations),
                      IF \E i \in 1..Len(seen) : seen[i].content = obs.content
                      THEN [i \in 1..Len(seen) |->
                               IF /\ seen[i].content = obs.content
                                  /\ obs.created_at > seen[i].created_at
                               THEN obs ELSE seen[i]]
                      ELSE Append(seen, obs))

\* sorted(values, key=lambda o: o.created_at, reverse=True): the sort is stable,
\* values with equal keys keep their order
RECURSIVE SortedNewestFirst(_)
SortedNewestFirst(values) ==
    IF values = <<>> THEN <<>>
    ELSE LET k == CHOOSE i \in 1..Len(values) :
                      /\ \A j \in 1..Len(values) : values[i].created_at >= values[j].created_at
                      /\ \A j \in 1..(i - 1) : values[j].created_at < values[i].created_at
         IN <<values[k]>>
            \o SortedNewestFirst(SubSeq(values, 1, k - 1) \o SubSeq(values, k + 1, Len(values)))

\* the values of the dict returned as they are, unsorted
deduplicate_hook_observations_unsorted(observations) ==
    SeenAfter(observations, <<>>)

\* one observation per content string, the latest of them, newest first
deduplicate_hook_observations(observations) ==
    SortedNewestFirst(SeenAfter(observations, <<>>))

\* the lines "- {content}{tags}" of a section (with_tags: Decisions & Notes only)
Bullets(obs, with_tags) ==
    [i \in 1..Len(obs) |->
        2 + Len(obs[i].content) + (IF with_tags THEN TagsLen(obs[i].tags) ELSE 0)]

\* "\n".join([heading + "\n"] + lines + [""])
SectionLen(heading, lines) == JoinLen(<<Len(heading) + 1>> \o lines \o <<0>>)

\* capsule.py generate_capsule(db, node_id, depth=1): None (0 here) when the
\* store has no such node, otherwise a text whose length capsule_len stands for
generate_capsule(d, node_id, capsule_len) ==
    IF get_node(d, node_id) = {} THEN 0 ELSE capsule_len

\* _add refusing a section that fills the budget exactly
_add_refuses_exact_fit(st, budget, heading, len, force_first) ==
    LET cost == _estimate_tokens(len)
        st1 == [st EXCEPT !.offered =
                   Append(@, [name |-> heading, len |-> len, used |-> st.used])]
    IN IF st.used + cost >= budget
       THEN IF force_first /\ st.sections = <<>>
            THEN [st1 EXCEPT !.sections =
                                 Append(@, [name |-> heading,
                                            len |-> SliceLen(len, budget * 4)]),
                             !.used = budget]
            ELSE st1
       ELSE [st1 EXCEPT !.sections = Append(@, [name |-> heading, len |-> len]),
                        !.used = @ + cost]

\* a forced section appended whole, without section[:max_chars]
_add_forces_untruncated(st, budget, heading, len, force_first) ==
    LET cost == _estimate_tokens(len)
        st1 == [st EXCEPT !.offered =
                   Append(@, [name |-> heading, len |-> len, used |-> st.used])]
    IN IF st.used + cost > budget
       THEN IF force_first /\ st.sections = <<>>
            THEN [st1 EXCEPT !.sections = Append(@, [name |-> heading, len |-> len]),
                             !.used = budget]
            ELSE st1
       ELSE [st1 EXCEPT !.sections = Append(@, [name |-> heading, len |-> len]),
                        !.used = @ + cost]

\* generate_resume._add.  st: sections, used, and offered, the texts _add was
\* called with and the count of used tokens it found
_add(st, budget, heading, len, force_first) ==
    LET cost == _estimate_tokens(len)
        st1 == [st EXCEPT !.offered =
                   Append(@, [name |-> heading, len |-> len, used |-> st.used])]
    IN IF st.used + cost > budget
       THEN IF force_first /\ st.sections = <<>>
            THEN [st1 EXCEPT !.sections =
                                 Append(@, [name |-> heading,
                                            len |-> SliceLen(len, budget * 4)]),
                             !.used = budget]
            ELSE st1
       ELSE [st1 EXCEPT !.sections = Append(@, [name |-> heading, len |-> len]),
                        !.used = @ + cost]

\* the line of one recently indexed file: its capsule if there is one and it
\* fits, otherwise "- `{file_path}`"
FileLine(d, f, used, budget, capsule_len) ==
    LET leaf == f.file_path[Len(f.file_path)]
        file_stem == removesuffix_py(leaf)
        capsule_text == generate_capsule(d, <<file_stem>>, capsule_len)
    IN IF capsule_text # 0 /\ _estimate_tokens(capsule_text) + used <= budget
       THEN capsule_text
       ELSE 3 + PathLen(f.file_path) + 1

RECURSIVE FileLines(_, _, _, _, _)
FileLines(d, files, used, budget, capsule_len) ==
    IF files = {} \/ used >= budget THEN <<>>
    ELSE LET f == CHOOSE x \in files :
                      \A y \in files : x.indexed_at > y.indexed_at
                                       \/ (x.indexed_at = y.indexed_at
                                           /\ Len(x.file_path) <= Len(y.file_path))
         IN <<FileLine(d, f, used, budget, capsule_len)>>
            \o FileLines(d, files \ {f}, used, budget, capsule_len)

generate_resume(d, budget, since, capsule_len) ==
    LET unique_high == NewestFirst(WhereSince(d, since, "claude")
                                   \cup WhereSince(d, since, "user"))
        git_obs == NewestFirst(WhereSince(d, since, "git"))
        recent_files == list_recently_indexed_files(d, since)
        hook_obs == NewestFirst(WhereSince(d, since, "hook"))
        deduped == deduplicate_hook_observations(hook_obs)
        \* 1. claude / user observations
        Decisions(st) ==
            IF unique_high # <<>>
            THEN _add(st, budget, "## Decisions & Notes",
                      SectionLen("## Decisions & Notes", Bullets(unique_high, TRUE)), TRUE)
            ELSE st
        \* 2. git commit observations
        Commits(st) ==
            IF git_obs # <<>>
            THEN _add(st, budget, "## Recent Commits",
                      SectionLen("## Recent Commits", Bullets(git_obs, FALSE)), FALSE)
            ELSE st
        \* 3. capsules for recently-modified files
        Modified(st) ==
            IF recent_files # {}
            THEN _add(st, budget, "## Recently Modified Files",
                      SectionLen("## Recently Modified Files",
                                 FileLines(d, recent_files, st.used, budget, capsule_len)),
                      FALSE)
            ELSE st
        \* 4. hook observations, deduplicated
        Touched(st) ==
            IF hook_obs # <<>>
            THEN _add(st, budget, "## Files Touched",
                      SectionLen("## Files Touched", Bullets(deduped, FALSE)), FALSE)
            ELSE st
        st0 == [offered |-> <<>>, sections |-> <<>>, used |-> 0]
    IN CHOOSE st4 \in
           {Touched(st3) : st3 \in
               {Modified(st2) : st2 \in
                   {Commits(st1) : st1 \in {Decisions(st0)}}}} : TRUE

\* the notes the sessions leave: a decision, a remark, a commit, an edit hook
NoteOf(source) ==
    CASE source = "claude" -> [content |-> "Use SQLite", tags |-> <<>>]
      [] source = "user" -> [content |-> "Decision A", tags |-> <<"db", "schema">>]
      [] source = "git" -> [content |-> "Commit abc: stuff  Files: a.py", tags |-> <<>>]
      [] source = "hook" -> [content |-> "Edited: b.py", tags |-> <<>>]

NoteSources == {"claude", "user", "git", "hook"}

\* ObservationStore.add(content, tags=tags, source=source)
AddNote(source) ==
    /\ Cardinality(db.observations) < MaxObs
    /\ db' = add_observation(db, Observation(NoteOf(source).content, clock, None,
                                             NoteOf(source).tags, source))
    /\ last' = [NoCall EXCEPT !.raised = last.raised]
    /\ UNCHANGED <<disk, clock, pending, timers, history, watcher, dbs, requests, resume, returned, projects>>

\* GET /resume?budget=&hours=: any integer is accepted
Budgets == {0 - 1, 0, 8, 20, 40}

\* the lengths a capsule text is given
CapsuleLens == {120}

\* generate_resume(db, budget, hours): since = now - hours * 3600, one step of
\* the clock being an hour
GenerateResume(budget, hours, capsule_len) ==
    \E since \in {clock - hours} :
        \E st \in {generate_resume(db, budget, since, capsule_len)} :
       /\ resume' = [budget |-> budget, since |-> since,
                     offered |-> st.offered, sections |-> st.sections, used |-> st.used]
       /\ UNCHANGED <<disk, db, clock, last, pending, timers, history, watcher, dbs, requests,
                       returned, projects>>

ResumeNext ==
    \/ Tick
    \/ \E p \in Files : WriteFile(p, 1)
    \/ IndexProject(FALSE, {})
    \/ \E source \in NoteSources : AddNote(source)
    \/ \E budget \in Budgets, hours \in 1..2, capsule_len \in CapsuleLens :
           GenerateResume(budget, hours, capsule_len)

ResumeSpec == Init /\ [][ResumeNext]_vars

\* the place of a section in the priority order
Priority(name) ==
    CASE name = "## Decisions & Notes" -> 1
      [] name = "## Recent Commits" -> 2
      [] name = "## Recently Modified Files" -> 3
      [] name = "## Files Touched" -> 4

\* the section has data in the window that begins at since
HasData(d, since, name) ==
    CASE name = "## Recent Commits" -> \E o \in d.observations :
                                           o.source = "git" /\ o.created_at > since
      [] name = "## Recently Modified Files" -> \E f \in d.indexed_files :
                                                    f.indexed_at > since
      [] name = "## Files Touched" -> \E o \in d.observations :
                                          o.source = "hook" /\ o.created_at > since

Included(r, name) == \E i \in 1..Len(r.sections) : r.sections[i].name = name

\* the tokens of the sections of the document that come before the section name
RECURSIVE TokensBefore(_, _)
TokensBefore(sections, name) ==
    IF sections = <<>> \/ sections[1].name = name THEN 0
    ELSE IF Priority(sections[1].name) < Priority(name)
         THEN _estimate_tokens(sections[1].len) + TokensBefore(Tail(sections), name)
         ELSE TokensBefore(Tail(sections), name)

\* the full text of the section fits in what the sections before it left of the budget
Fits(r, name) ==
    \E k \in 1..Len(r.offered) :
        /\ r.offered[k].name = name
        /\ _estimate_tokens(r.offered[k].len) <= r.budget - TokensBefore(r.sections, name)

\* C20: in every document generate_resume returns the sections are in the
\* order Decisions & Notes, Recent Commits, Recently Modified Files, Files
\* Touched, and a section other than Decisions & Notes is in it exactly when
\* it has data and its full token cost (len // 4) fits in the budget that the
\* sections added before it left
C20_PriorityFill ==
    [][resume' # resume =>
          /\ \A i, j \in 1..Len(resume'.sections) :
                 i < j => Priority(resume'.sections[i].name)
                              < Priority(resume'.sections[j].name)
          /\ \A name \in {"## Recent Commits", "## Recently Modified Files",
                          "## Files Touched"} :
                 Included(resume', name)
                     <=> (HasData(db, resume'.since, name) /\ Fits(resume', name))]_vars

\* Files Touched is in the document although Recent Commits had data and was
\* skipped
C20_Witness ==
    /\ Included(resume, "## Files Touched")
    /\ ~Included(resume, "## Recent Commits")
    /\ \E k \in 1..Len(resume.offered) : resume.offered[k].name = "## Recent Commits"

----------------------------------------------------------------------------
(* generate_resume: the document returned *)

\* resume.py 113-119: the message for no sections, otherwise the header and the
\* sections joined
Document(sections) ==
    IF sections = <<>>
    THEN [first_line |-> "No recent activity found.", sections |-> <<>>]
    ELSE [first_line |-> "# Session Resume", sections |-> sections]

\* C21: when at least one observation (of any source) or one indexed file falls
\* inside the lookback window, generate_resume returns a document with the
\* Session Resume header and at least one section, for every budget
C21_NeverEmptyWithData ==
    [][resume' # resume =>
          ((\/ \E o \in db.observations : o.created_at > resume'.since
            \/ \E f \in db.indexed_files : f.indexed_at > resume'.since)
           => /\ Document(resume'.sections).first_line = "# Session Resume"
              /\ Len(Document(resume'.sections).sections) >= 1)]_vars

----------------------------------------------------------------------------
(* The helpers called on their own, with lists given by the caller *)

\* the lists of hook observations a caller passes: ids by position
HookLists ==
    {[i \in 1..Len(l) |->
         [Observation(l[i][1], l[i][2], None, <<>>, "hook") EXCEPT !.id = i]] :
        l \in UNION {[1..m -> {"Edited: a.py", "Edited: b.py"} \X (0..MaxStamp)] :
                        m \in 0..MaxList}}

\* ObservationStore.deduplicate_hook_observations(observations)
Deduplicate(observations) ==
    /\ returned' = [op |-> "deduplicate_hook_observations", args |-> <<observations>>,
                    value |-> deduplicate_hook_observations(observations)]
    /\ UNCHANGED <<disk, db, clock, last, pending, timers, history, watcher, dbs, requests,
                   resume, projects>>

HelperNext ==
    \E observations \in HookLists : Deduplicate(observations)

HelperSpec == Init /\ [][HelperNext]_vars

\* C22: deduplicate_hook_observations returns exactly one observation per
\* distinct content of its input, one with the greatest created_at among the
\* inputs of that content; the result is a subset of the input, is ordered by
\* created_at descending, and the helper applied to its result returns it
C22_DedupeLatestPerContent ==
    returned.op = "deduplicate_hook_observations" =>
        LET input == returned.args[1]
            result == returned.value
        IN /\ \A i \in 1..Len(input) :
                  \E j \in 1..Len(result) :
                      /\ result[j].content = input[i].content
                      /\ result[j].created_at >= input[i].created_at
           /\ \A j, k \in 1..Len(result) :
                  result[j].content = result[k].content => j = k
           /\ \A j \in 1..Len(result) : \E i \in 1..Len(input) : input[i] = result[j]
           /\ \A j, k \in 1..Len(result) :
                  j < k => result[j].created_at >= result[k].created_at
           /\ deduplicate_hook_observations(result) = result

\* three observations, two of one content of which the later comes second, and an
\* older one of another content given first
C22_Witness ==
    /\ returned.op = "deduplicate_hook_observations"
    /\ Len(returned.args[1]) = 3
    /\ Len(returned.value) = 2
    /\ returned.args[1][1].created_at < returned.args[1][3].created_at
    /\ returned.args[1][2].content = returned.args[1][3].content
    /\ returned.args[1][2].created_at < returned.args[1][3].created_at
    /\ returned.value[1] = returned.args[1][3]

----------------------------------------------------------------------------
(* The observation queries of the store, called directly as the tests do *)

\* db.add_observation(Observation(content, created_at, source)): the caller
\* gives created_at
AddObservationAt(created_at, source) ==
    /\ Cardinality(db.observations) < MaxRows
    /\ db' = add_observation(db, Observation("note", created_at, None, <<>>, source))
    /\ UNCHANGED <<disk, clock, last, pending, timers, history, watcher, dbs, requests,
                   resume, returned, projects>>

\* db.list_observations_since(since, source, limit)
ListObservationsSince(since, source, limit) ==
    /\ \E rows \in list_observations_since(db, since, source, limit) :
           returned' = [op |-> "list_observations_since",
                        args |-> <<since, source, limit>>, value |-> rows]
    /\ UNCHANGED <<disk, db, clock, last, pending, timers, history, watcher, dbs, requests,
                   resume, projects>>

QueryNext ==
    \/ \E created_at \in 0..MaxStamp, source \in {"claude", "git"} :
           AddObservationAt(created_at, source)
    \/ \E since \in (0 - 1)..MaxStamp, source \in {"claude", "git", "None"},
          limit \in {NoLimit} \cup 0..MaxRows :
           ListObservationsSince(since, source, limit)

QuerySpec == Init /\ [][QueryNext]_vars

\* C23: list_observations_since(since, source, limit) returns exactly the stored
\* observations with created_at strictly greater than since and, when source
\* is given, of that source, ordered by created_at descending; with a limit it
\* returns the first limit entries of that order
C23_ListSince ==
    [][(returned' # returned /\ returned'.op = "list_observations_since") =>
          LET since == returned'.args[1]
              source == returned'.args[2]
              limit == returned'.args[3]
              value == returned'.value
              got == {value[i] : i \in 1..Len(value)}
              all == {o \in db.observations :
                         /\ o.created_at > since
                         /\ source # "None" => o.source = source}
          IN /\ \A i, j \in 1..Len(value) : value[i] = value[j] => i = j
             /\ \A i, j \in 1..Len(value) :
                    i < j => value[i].created_at >= value[j].created_at
             /\ got \subseteq all
             /\ \A o \in db.observations : o.created_at = since => o \notin got
             /\ IF limit = NoLimit THEN got = all
                ELSE /\ Len(value) = (IF limit < Cardinality(all) THEN limit
                                      ELSE Cardinality(all))
                     /\ \A o \in all \ got :
                            \A g \in got : g.created_at >= o.created_at]_vars

\* a query with a source and a limit that leaves out a row created exactly at
\* since, a row of another source and, by the limit, the oldest matching row
C23_Witness ==
    /\ returned.op = "list_observations_since"
    /\ returned.args[2] = "git"
    /\ returned.args[3] = 1
    /\ Len(returned.value) = 1
    /\ \E o \in db.observations : o.source = "git" /\ o.created_at = returned.args[1]
    /\ \E o \in db.observations :
           /\ o.source = "git"
           /\ o.created_at > returned.args[1]
           /\ o.created_at < returned.value[1].created_at

----------------------------------------------------------------------------
(* graph.py: traversal of the edges of the store, which callers fill through *)
(* upsert_node and upsert_edge.  The list a query returns is carried as the  *)
(* bag of its elements: the statements have no ORDER BY                      *)

\* get_edges without the kind clause
get_edges_ignores_kind(d, source_id, target_id, kind) ==
    {e \in d.edges : /\ source_id # None => e.source_id = source_id
                     /\ target_id # None => e.target_id = target_id}

\* SELECT * FROM edges [WHERE source_id = ? AND target_id = ? AND kind = ?];
\* None / "None": the argument is None and adds no clause
get_edges(d, source_id, target_id, kind) ==
    {e \in d.edges : /\ source_id # None => e.source_id = source_id
                     /\ target_id # None => e.target_id = target_id
                     /\ kind # "None" => e.kind = kind}

RECURSIVE dependents(_, _, _, _)
RECURSIVE ExtendDependents(_, _, _, _)
\* Graph.dependents: the edges whose target is node_id, then for each of them
\* the dependents of its source_id at depth - 1
dependents(d, node_id, kind, depth) ==
    IF depth <= 0 THEN EmptyBag
    ELSE LET edges == get_edges(d, None, node_id, kind)
         IN IF depth > 1
            THEN SetToBag(edges) (+) ExtendDependents(d, edges, kind, depth)
            ELSE SetToBag(edges)

\* for edge in list(edges): edges.extend(self.dependents(edge.source_id, ...))
ExtendDependents(d, edges, kind, depth) ==
    IF edges = {} THEN EmptyBag
    ELSE LET edge == CHOOSE e \in edges : TRUE
         IN dependents(d, edge.source_id, kind, depth - 1)
            (+) ExtendDependents(d, edges \ {edge}, kind, depth)

RECURSIVE dependencies(_, _, _, _)
RECURSIVE ExtendDependencies(_, _, _, _)
\* a guard `depth < 0` in place of `depth <= 0`
dependencies_reads_at_depth_zero(d, node_id, kind, depth) ==
    IF depth < 0 THEN EmptyBag
    ELSE LET edges == get_edges(d, node_id, None, kind)
         IN IF depth > 1
            THEN SetToBag(edges) (+) ExtendDependencies(d, edges, kind, depth)
            ELSE SetToBag(edges)

\* Graph.dependencies: the edges whose source is node_id, then for each of them
\* the dependencies of its target_id at depth - 1
dependencies(d, node_id, kind, depth) ==
    IF depth <= 0 THEN EmptyBag
    ELSE LET edges == get_edges(d, node_id, None, kind)
         IN IF depth > 1
            THEN SetToBag(edges) (+) ExtendDependencies(d, edges, kind, depth)
            ELSE SetToBag(edges)

\* for edge in list(edges): edges.extend(self.dependencies(edge.target_id, ...))
ExtendDependencies(d, edges, kind, depth) ==
    IF edges = {} THEN EmptyBag
    ELSE LET edge == CHOOSE e \in edges : TRUE
         IN dependencies(d, edge.target_id, kind, depth - 1)
            (+) ExtendDependencies(d, edges \ {edge}, kind, depth)

\* resolve_target taking the first of several candidates
resolve_target_first_candidate(d, target_name) ==
    LET node == get_node(d, target_name)
        candidates == {n \in d.nodes : <<n.name>> = target_name}
    IN IF node # {} THEN node
       ELSE IF candidates # {} THEN {CHOOSE n \in candidates : TRUE}
       ELSE {}

\* Graph.resolve_target: the node of that id, else the only node of that short
\* name (list_nodes(name=...): WHERE name = ?), else None ({} here)
resolve_target(d, target_name) ==
    LET node == get_node(d, target_name)
        candidates == {n \in d.nodes : <<n.name>> = target_name}
    IN IF node # {} THEN node
       ELSE IF Cardinality(candidates) = 1 THEN candidates
       ELSE {}

\* the ids the callers use: a module f and two functions named f
GraphIds == {<<"f">>, <<"m", "f">>, <<"n", "f">>}

\* db.upsert_node(NodeRecord(id=..., parent_id=..., line_start=...)); existed,
\* children, edges, observations: the row of that id and what hung on it when
\* the call was made
UpsertNode(id, parent_id, line_start) ==
    /\ \E node \in {NodeRecord(id, IF Len(id) = 1 THEN "module" ELSE "function",
                                id[Len(id)], FileA, line_start, line_start,
                                parent_id, <<>>, Sha256(1), 0)} :
           \E r \in {upsert_node(db, node)} :
               /\ db' = r.db
               /\ returned' = [op |-> "upsert_node", args |-> <<node>>,
                               value |-> IF r.ok THEN "ok" ELSE "IntegrityError",
                               existed |-> get_node(db, id) # {},
                               children |-> {n.id : n \in {m \in db.nodes :
                                                               m.parent_id = id}},
                               edges |-> get_edges(db, id, None, "None"),
                               observations |-> {o \in db.observations :
                                                    o.node_id = id}]
    /\ UNCHANGED <<disk, clock, last, pending, timers, history, watcher, dbs, requests,
                   resume, projects>>

\* db.upsert_edge(EdgeRecord(source_id, target_id, kind, line=...))
UpsertEdge(source_id, target_id, kind, line) ==
    /\ Cardinality(db.edges) < MaxEdges
    /\ \E r \in {upsert_edge(db, EdgeRecord(source_id, target_id, kind, FileA, line))} :
           db' = r.db
    /\ UNCHANGED <<disk, clock, last, pending, timers, history, watcher, dbs, requests,
                   resume, returned, projects>>

\* Graph(db).dependencies(node_id, kind, depth)
Dependencies(node_id, kind, depth) ==
    /\ returned' = [op |-> "dependencies", args |-> <<node_id, kind, depth>>,
                    value |-> dependencies(db, node_id, kind, depth)]
    /\ UNCHANGED <<disk, db, clock, last, pending, timers, history, watcher, dbs, requests,
                   resume, projects>>

\* Graph(db).dependents(node_id, kind, depth)
Dependents(node_id, kind, depth) ==
    /\ returned' = [op |-> "dependents", args |-> <<node_id, kind, depth>>,
                    value |-> dependents(db, node_id, kind, depth)]
    /\ UNCHANGED <<disk, db, clock, last, pending, timers, history, watcher, dbs, requests,
                   resume, projects>>

\* Graph(db).resolve_target(target_name)
ResolveTarget(target_name) ==
    /\ returned' = [op |-> "resolve_target", args |-> <<target_name>>,
                    value |-> resolve_target(db, target_name)]
    /\ UNCHANGED <<disk, db, clock, last, pending, timers, history, watcher, dbs, requests,
                   resume, projects>>

GraphNext ==
    \/ \E id \in GraphIds : UpsertNode(id, None, 1)
    \/ \E target_name \in GraphIds \cup {<<"g">>} : ResolveTarget(target_name)
    \/ \E source_id \in GraphIds, target_id \in GraphIds :
           \/ UpsertEdge(source_id, target_id, "calls", 1)
           \/ Len(source_id) = 1 /\ UpsertEdge(source_id, target_id, "imports", 1)
    \/ \E node_id \in GraphIds, kind \in {"calls", "None"}, depth \in 0..MaxDepth :
           \/ Dependencies(node_id, kind, depth)
           \/ Dependents(node_id, kind, depth)

GraphSpec == Init /\ [][GraphNext]_vars

\* the walks of exactly k edges of E that leave id along the direction of
\* the edges (forward) or against it
RECURSIVE Walks(_, _, _, _)
Walks(E, id, k, forward) ==
    LET From(e) == IF forward THEN e.source_id ELSE e.target_id
        To(e) == IF forward THEN e.target_id ELSE e.source_id
    IN IF k = 1 THEN {<<e>> : e \in {x \in E : From(x) = id}}
       ELSE UNION {{Append(w, e) : e \in {x \in E : From(x) = To(w[Len(w)])}} :
                      w \in Walks(E, id, k - 1, forward)}

\* no walk of E is longer than E has edges
Acyclic(E) ==
    \A e \in E : Walks(E, e.source_id, Cardinality(E) + 1, TRUE) = {}

\* C24: dependencies(id, kind, 1) returns exactly the edges with source_id = id
\* (of the kind, when one is given); at depth n > 1 it returns them together
\* with dependencies(t, kind, n - 1) for the target t of each of them, so that
\* an edge is returned once for every walk of at most n edges from id that
\* ends with it; dependents is the mirror image; on an acyclic graph the set
\* of edges returned is the set of edges on a path of at most n edges from
\* (resp. to) id
C24_DepthSemantics ==
    [][(/\ returned' # returned
        /\ returned'.op \in {"dependencies", "dependents"}
        /\ returned'.args[3] >= 1) =>
          LET id == returned'.args[1]
              kind == returned'.args[2]
              n == returned'.args[3]
              value == returned'.value
              forward == returned'.op = "dependencies"
              E == {e \in db.edges : kind # "None" => e.kind = kind}
              W == UNION {Walks(E, id, k, forward) : k \in 1..n}
          IN /\ n = 1 => value = SetToBag({e \in E : IF forward THEN e.source_id = id
                                                              ELSE e.target_id = id})
             /\ \A e \in db.edges :
                    CopiesIn(e, value) = Cardinality({w \in W : w[Len(w)] = e})
             /\ BagToSet(value) \subseteq db.edges
             /\ Acyclic(E) =>
                    BagToSet(value) = UNION {{w[i] : i \in 1..Len(w)} : w \in W}]_vars

\* a query of depth 2 without a kind on an acyclic graph, which returns one
\* edge twice: two edges of different kinds lead to its source
C24_Witness ==
    /\ returned.op = "dependencies"
    /\ returned.args[2] = "None"
    /\ returned.args[3] = 2
    /\ Acyclic(db.edges)
    /\ \E e \in db.edges : CopiesIn(e, returned.value) = 2
    /\ BagToSet(returned.value) = db.edges

\* C25: resolve_target(name) returns the node whose id is name when there is
\* one, also when several nodes have that short name; otherwise the node whose
\* short name is name when exactly one node has it; otherwise nothing
C25_ResolveTarget ==
    [][(returned' # returned /\ returned'.op = "resolve_target") =>
          LET name == returned'.args[1]
              value == returned'.value
              by_id == {n \in db.nodes : n.id = name}
              by_name == {n \in db.nodes : Len(name) = 1 /\ n.name = name[1]}
          IN IF by_id # {} THEN value = by_id
             ELSE IF Cardinality(by_name) = 1 THEN value = by_name
             ELSE value = {}]_vars

\* the node of id f is returned although two more nodes have the short name f
C25_Witness ==
    /\ returned.op = "resolve_target"
    /\ returned.args[1] = <<"f">>
    /\ \E n \in returned.value : n.id = <<"f">>
    /\ Cardinality({n \in db.nodes : n.name = "f"}) = 3

----------------------------------------------------------------------------
(* upsert_node over rows that have children, edges and observations *)

UpsertNext ==
    \/ \E id \in {<<"f">>, <<"m", "f">>}, parent_id \in {None, <<"f">>, <<"zz">>},
          line_start \in 1..2 : UpsertNode(id, parent_id, line_start)
    \/ \E source_id \in {<<"f">>, <<"m", "f">>} : UpsertEdge(source_id, <<"g">>, "calls", 1)
    \/ \E node_id \in NoteTargets : AddObservation(node_id)

UpsertSpec == Init /\ [][UpsertNext]_vars

\* C26: upsert_node(n) is an idempotent insert-or-replace by id: afterwards
\* exactly one row has the id of n and get_node returns the field values of n;
\* the same upsert applied again leaves the state as it is; and no other row
\* changes: the children of the node, the edges from it and the observations
\* linked to it are neither deleted nor nullified
C26_UpsertNode ==
    \A id \in {<<"f">>, <<"m", "f">>}, parent_id \in {None, <<"f">>}, line_start \in 1..2 :
        LET node == NodeRecord(id, IF Len(id) = 1 THEN "module" ELSE "function",
                               id[Len(id)], FileA, line_start, line_start,
                               parent_id, <<>>, Sha256(1), 0)
            r == upsert_node(db, node)
        IN r.ok =>
               /\ Cardinality({n \in r.db.nodes : n.id = id}) = 1
               /\ get_node(r.db, id) = {node}
               /\ upsert_node(r.db, node) = r
               /\ {n \in r.db.nodes : n.id # id} = {n \in db.nodes : n.id # id}
               /\ r.db.edges = db.edges
               /\ r.db.observations = db.observations
               /\ r.db.indexed_files = db.indexed_files

\* the row of f was replaced (its line_start is now 2) while it had a child, an
\* edge and an observation, which are all still there
C26_Witness ==
    /\ returned.op = "upsert_node"
    /\ returned.value = "ok"
    /\ returned.existed
    /\ returned.args[1].id = <<"f">>
    /\ returned.args[1].line_start = 2
    /\ get_node(db, <<"f">>) = {returned.args[1]}
    /\ returned.children # {} /\ returned.children \subseteq NodeIds(db)
    /\ returned.edges # {} /\ returned.edges \subseteq db.edges
    /\ returned.observations # {} /\ returned.observations \subseteq db.observations

----------------------------------------------------------------------------
(* index_file: failure after the purge *)

\* C27: the purge-and-rewrite of index_file(P) is atomic with respect to
\* failure: when a step after the purge has begun fails, the store is left as
\* it was before the call, with the previous nodes, edges and IndexedFile row
\* of P still present
C27_AtomicOnFailure ==
    [][(/\ last'.op = "index_file"
        /\ last'.outcome \notin {"ok", "skip", "OSError"}) => db' = db]_vars

----------------------------------------------------------------------------
(* C28 *)

\* C28: every edge that a call of index_file(P) emits has a source_id equal to
\* the id of a node emitted by the same call, whatever the nesting of the
\* definition that holds the call, so the store never rejects the edge batch:
\* a call that reads and parses the file does not end in IntegrityError.
C28_EdgeSourcesEmitted ==
    [][(/\ last'.op = "index_file"
        /\ last'.outcome \notin {"skip", "OSError"})
       => LET p == last'.path
              x == Extract(disk[p], p, Sha256(disk[p]), clock)
          IN /\ \A e \in Range(x.edges) : e.source_id \in {n.id : n \in Range(x.nodes)}
             /\ last'.outcome # "IntegrityError"]_vars

----------------------------------------------------------------------------
(* C29 *)

\* a timer that was started, whose sleep cancel() did not stop, and whose
\* delayed action has not begun
Live(t) == timers[t].state \in {"waiting", "fired"}

\* C29: at every moment each live debounce timer is the one recorded for its
\* path in the pending map, so there is at most one per path; and a callback
\* never removes the map entry of another timer: an entry is removed only by
\* the timer it records, as that timer's action begins.
C29_OneLiveTimerPerPath ==
    /\ [](\A t \in TimerIds : Live(t) => pending[timers[t].path] = t)
    /\ [][\A p \in Files : (pending[p] # 0 /\ pending'[p] = 0)
                              => timers'[pending[p]].state = "running"]_vars

----------------------------------------------------------------------------
(* C30 *)

\* C30: the hash that a call of index_file(P) stores in P's indexed-file
\* record is the hash of the very bytes from which the call derived P's stored
\* nodes and edges, also when P is rewritten on disk while the call runs.
C30_HashOfParsedBytes ==
    [][\A t \in TimerIds :
          (At(t, "upsert_indexed_file") /\ timers'[t].state = "done"
                                         /\ timers'[t].outcome = "ok")
          => \E f \in get_indexed_file(db', timers[t].path) :
                 f.file_hash = Sha256(timers[t].source)]_vars

----------------------------------------------------------------------------
(* C31 *)

\* C31: index_file(P) and remove_file(P) change only rows of P: the node
\* rows, edge rows and indexed-file row of every other file Q are the same
\* after the call as before it, also for a module file and a package
\* __init__ file that have the same dotted module id.
C31_OnlyRowsOfP ==
    [][last'.op \in {"index_file", "remove_file"}
       => \A q \in Files \ {last'.path} : View(db', q) = View(db, q)]_vars

----------------------------------------------------------------------------
(* C32 *)

\* C32: after index_file(P) completes a purge-and-rewrite, the node_count of
\* P's indexed-file row equals the number of node rows stored with
\* file_path = P and equals the length of the node list the call returns,
\* also when the file defines the same qualified name more than once.
C32_NodeCountIsRowCount ==
    [][(last'.op = "index_file" /\ last'.outcome = "ok")
       => \E f \in get_indexed_file(db', last'.path) :
              /\ f.node_count = Cardinality(list_nodes(db', last'.path))
              /\ f.node_count = last'.ret_len]_vars

----------------------------------------------------------------------------
(* C33 *)

\* C33: when index_file(P) takes the purge-and-rewrite path (changed bytes or
\* force), every observation that was linked to a node with file_path = P is
\* still stored and has node_id = null after the call, even when the rewrite
\* re-creates a node with the same id; when index_file(P) takes the skip
\* path, the observations and their links are unchanged.
C33_RewriteUnlinksObservations ==
    [][last'.op = "index_file"
       => /\ last'.outcome = "skip" => db'.observations = db.observations
          /\ last'.outcome \in {"ok", "IntegrityError"}
             => \A o \in db.observations :
                   o.node_id \in {n.id : n \in list_nodes(db, last'.path)}
                   => \E o2 \in db'.observations :
                         o2 = [o EXCEPT !.node_id = None]]_vars

\* a forced rewrite of a file that had rows has completed, a node of the file
\* is stored again, and a note that was attached to a node is unlinked
C33_Witness ==
    /\ last.op = "index_file" /\ last.outcome = "ok" /\ last.force /\ last.had_rows
    /\ list_nodes(db, last.path) # {}
    /\ \A o \in db.observations : o.content = "note on a node" /\ o.node_id = None
    /\ Cardinality(db.observations) = MaxObs

----------------------------------------------------------------------------
(* C34 *)

\* the non-ignored source files present under the project root
Eligible(dsk) == {p \in Files : dsk[p] # 0 /\ ~WalkSkips(p)}

\* C34: after index_project() returns with no concurrent file changes, the
\* file paths having an indexed-file row, and the file paths having node
\* rows, are exactly the non-ignored source files present under the project
\* root, so rows of files deleted since the previous walk do not survive;
\* the returned count is the number of those files.
C34_CleanBaseline ==
    [][(last'.op = "index_project" /\ last'.outcome = "ok" /\ disk' = disk)
       => /\ {p \in Files : get_indexed_file(db', p) # {}} = Eligible(disk)
          /\ {p \in Files : list_nodes(db', p) # {}} = Eligible(disk)
          /\ last'.ret_len = Cardinality(Eligible(disk))]_vars

----------------------------------------------------------------------------
(* api.py: register_project.  The requests are served by concurrent threads; *)
(* each step below is one statement of the handler.  A ProjectWatcher is     *)
(* named by the request that created it.                                     *)

\* data.get("root"); if not project_root: 400
Register(r, root) ==
    /\ requests[r].pc = "none"
    /\ requests' = [requests EXCEPT ![r] =
                       IF root = NoRoot
                       THEN [@ EXCEPT !.pc = "done", !.reply = "missing 'root'"]
                       ELSE [@ EXCEPT !.pc = "reg_check", !.root = root]]
    /\ UNCHANGED <<disk, db, clock, last, pending, timers, history, watcher, dbs, resume, returned, projects>>

\* if project_root in projects: return "already registered"
RegCheck(r) ==
    /\ requests[r].pc = "reg_check"
    /\ requests' = [requests EXCEPT ![r] =
                       IF projects[requests[r].root] # 0
                       THEN [@ EXCEPT !.pc = "done", !.reply = "already registered"]
                       ELSE [@ EXCEPT !.pc = "reg_create"]]
    /\ UNCHANGED <<disk, db, clock, last, pending, timers, history, watcher, dbs, resume, returned, projects>>

\* project_db = _get_db(project_root); watcher = ProjectWatcher(project_db, project_root)
RegCreate(r) ==
    /\ requests[r].pc = "reg_create"
    /\ LET root == requests[r].root
           made == IF dbs[root] = 0 THEN r ELSE 0
           got == IF dbs[root] = 0 THEN r ELSE dbs[root]
       IN /\ dbs' = [dbs EXCEPT ![root] = got]
          /\ requests' = [requests EXCEPT ![r] =
                             [@ EXCEPT !.pc = "reg_index", !.made = made, !.got = got,
                                       !.watcher = "created"]]
    /\ UNCHANGED <<disk, db, clock, last, pending, timers, history, watcher, resume, returned, projects>>

\* file_count = watcher.index_now()
RegIndex(r) ==
    /\ requests[r].pc = "reg_index"
    /\ requests' = [requests EXCEPT ![r] = [@ EXCEPT !.pc = "reg_start", !.watcher = "indexed"]]
    /\ UNCHANGED <<disk, db, clock, last, pending, timers, history, watcher, dbs, resume, returned, projects>>

\* watcher.start()
RegStart(r) ==
    /\ requests[r].pc = "reg_start"
    /\ requests' = [requests EXCEPT ![r] = [@ EXCEPT !.pc = "reg_store", !.watcher = "started"]]
    /\ UNCHANGED <<disk, db, clock, last, pending, timers, history, watcher, dbs, resume, returned, projects>>

\* projects[project_root] = watcher; return "registered", 201
RegStore(r) ==
    /\ requests[r].pc = "reg_store"
    /\ projects' = [projects EXCEPT ![requests[r].root] = r]
    /\ requests' = [requests EXCEPT ![r] = [@ EXCEPT !.pc = "done", !.reply = "registered"]]
    /\ UNCHANGED <<disk, db, clock, last, pending, timers, history, watcher, dbs, resume, returned>>

RegisterNext ==
    \/ \E r \in Requests, root \in Roots \cup {NoRoot} : Register(r, root)
    \/ \E r \in Requests : RegCheck(r)
    \/ \E r \in Requests : RegCreate(r)
    \/ \E r \in Requests : RegIndex(r)
    \/ \E r \in Requests : RegStart(r)
    \/ \E r \in Requests : RegStore(r)

RegisterSpec == Init /\ [][RegisterNext]_vars

\* C35: at most one watcher is ever created and started per project root, for
\* any interleaving of concurrent registration requests for the same root;
\* a request answered 'already registered' has created, indexed and started
\* no watcher.
C35_OneWatcherPerRoot ==
    /\ \A r1, r2 \in Requests :
          (/\ requests[r1].root = requests[r2].root
           /\ requests[r1].watcher # "none" /\ requests[r2].watcher # "none") => r1 = r2
    /\ \A r \in Requests :
          requests[r].reply = "already registered" => requests[r].watcher = "none"

----------------------------------------------------------------------------
(* C36 *)

\* the largest number of edges a traversal of `depth` levels can return when
\* the store holds m edges: m at the first level, m for each of them at the next
RECURSIVE WorkBound(_, _)
WorkBound(m, depth) == IF depth <= 0 THEN 0 ELSE m + m * WorkBound(m, depth - 1)

\* C36: dependencies and dependents terminate for every finite edge set,
\* cycles and self-loops included, and every finite depth: the call returns a
\* list whose length is bounded by the depth and the number of edges, depth
\* <= 0 returns the empty list, and the traversal leaves the store unchanged.
C36_TraversalTerminates ==
    [][(returned' # returned /\ returned'.op \in {"dependencies", "dependents"})
       => /\ db' = db
          /\ returned'.args[3] <= 0 => returned'.value = EmptyBag
          /\ BagCardinality(returned'.value)
                <= WorkBound(Cardinality(db.edges), returned'.args[3])]_vars

\* a traversal of the greatest depth over a store with a self-loop and a
\* two-edge cycle has returned, with edges counted more than once
C36_Witness ==
    /\ returned.op \in {"dependencies", "dependents"}
    /\ returned.args[3] = MaxDepth
    /\ \E e \in db.edges : e.source_id = e.target_id
    /\ \E e, f \in db.edges :
          e.source_id # e.target_id /\ f.source_id = e.target_id /\ f.target_id = e.source_id
    /\ BagCardinality(returned.value) > Cardinality(db.edges)
    /\ BagToSet(returned.value) \subseteq db.edges

----------------------------------------------------------------------------
(* C37 *)

\* the sum of the token costs of the sections
RECURSIVE SectionTokens(_)
SectionTokens(sections) ==
    IF sections = <<>> THEN 0
    ELSE _estimate_tokens(sections[1].len) + SectionTokens(Tail(sections))

\* the Decisions & Notes section did not fit when it was offered to _add
ForceAdded(r) ==
    /\ r.sections # <<>> /\ r.sections[1].name = "## Decisions & Notes"
    /\ \E k \in 1..Len(r.offered) :
          /\ r.offered[k].name = "## Decisions & Notes"
          /\ r.offered[k].used + _estimate_tokens(r.offered[k].len) > r.budget

\* C37: for every budget >= 0 and every store content, the token figure
\* generate_resume accumulates and reports as used never exceeds budget, the
\* sum of the token costs (len // 4) of the included sections never exceeds
\* budget, and a force-added Decisions & Notes section is at most budget * 4
\* characters long.
C37_WithinBudget ==
    resume.budget >= 0
       => /\ resume.used <= resume.budget
          /\ SectionTokens(resume.sections) <= resume.budget
          /\ ForceAdded(resume) => resume.sections[1].len <= resume.budget * 4

\* a Decisions & Notes section that was too long for a positive budget is in
\* the document, cut to budget * 4 characters, and the count stands at budget
C37_Witness ==
    /\ resume.budget > 0
    /\ ForceAdded(resume)
    /\ resume.sections[1].len = resume.budget * 4
    /\ resume.offered[1].len > resume.budget * 4
    /\ resume.used = resume.budget

----------------------------------------------------------------------------
(* generate_resume over a project of two modules, a.py and b.py, each with   *)
(* a module node of its own                                                  *)

FileB == project_root \o <<"b.py">>

Modules == {FileA, FileB}

\* both files hold the bytes of Source1 and are not rewritten
ModuleDisk == [p \in Modules |-> 1]

\* Indexer.index_file(p) on that project
IndexModule(p) ==
    /\ \E r \in {index_file(db, ModuleDisk, p, FALSE, clock)} :
          /\ db' = r.db
          /\ last' = [op |-> "index_file", path |-> p, force |-> FALSE,
                      had_rows |-> HasRows(db, p), outcome |-> r.outcome,
                      ret |-> r.ret, ret_len |-> r.ret_len,
                      raised |-> last.raised \/ r.outcome \notin {"ok", "skip"}]
    /\ UNCHANGED <<disk, clock, pending, timers, history, watcher, dbs, requests, resume, returned, projects>>

CapsuleNext ==
    \/ Tick
    \/ \E p \in Modules : IndexModule(p)
    \/ \E source \in NoteSources : AddNote(source)
    \/ \E budget \in Budgets, hours \in 1..2, capsule_len \in CapsuleLens :
           GenerateResume(budget, hours, capsule_len)

CapsuleSpec == Init /\ [][CapsuleNext]_vars

\* the token cost of the capsules among the lines
RECURSIVE CapsuleTokens(_)
CapsuleTokens(lines) ==
    IF lines = <<>> THEN 0
    ELSE (IF lines[1] \in CapsuleLens THEN _estimate_tokens(lines[1]) ELSE 0)
         + CapsuleTokens(Tail(lines))

\* C38: in the Recently Modified Files section a file's capsule is included
\* only if the capsule's token cost plus the cost accumulated so far, counting
\* the capsules already included for earlier files of the same section, is at
\* most budget; otherwise the file has a bulleted reference; and files are
\* left out only once the budget is exhausted.
C38_CapsulesCountedInSection ==
    [][resume' # resume
       => \A k \in 1..Len(resume'.offered) :
             resume'.offered[k].name = "## Recently Modified Files"
             => \A capsule_len \in CapsuleLens :
                  \E files \in {list_recently_indexed_files(db, resume'.since)} :
                  \E used \in {resume'.offered[k].used} :
                  \E lines \in {FileLines(db, files, used, resume'.budget, capsule_len)} :
                     /\ resume'.offered[k].len
                           = SectionLen("## Recently Modified Files", lines)
                     /\ \A i \in 1..Len(lines) :
                           lines[i] \in CapsuleLens
                           => _estimate_tokens(lines[i]) + used
                                 + CapsuleTokens(SubSeq(lines, 1, i - 1)) <= resume'.budget
                     /\ Len(lines) < Cardinality(files)
                           => used + CapsuleTokens(lines) >= resume'.budget]_vars

----------------------------------------------------------------------------
(* The ignore rule of the walk and of the watcher, for projects in several   *)
(* places of the file system                                                 *)

\* the directories a project root is in: a plain one, a hidden one, one named
\* like a dependency directory
IgnoreRoots == {<<"/", "proj">>, <<"/", ".config", "proj">>, <<"/", "node_modules", "proj">>}

\* directory names below the root
Segments == {"a", ".venv", "__pycache__", "node_modules", ".git", ".context_graph", ".config"}

\* the .py files below a root, at most two directories down
RelPaths ==
    {dirs \o <<leaf>> :
        dirs \in {<<>>} \cup {<<s>> : s \in Segments} \cup {<<s, t>> : s, t \in Segments},
        leaf \in {"a.py", "b.py", "__init__.py"}}

\* whether index_project of the project at `root` calls index_file for the
\* file, and whether the handler of its watcher schedules an action for an
\* event on it (watchdog reports the path with the watched root before it)
CheckIgnore(root, rel) ==
    /\ returned' = [op |-> "ignore", args |-> <<root, rel>>,
                    value |-> [walk |-> ~WalkSkipsUnder(root, root \o rel),
                               watcher |-> Handled(root \o rel)]]
    /\ UNCHANGED <<disk, db, clock, last, pending, timers, history, watcher, dbs, requests,
                   resume, projects>>

IgnoreNext == \E root \in IgnoreRoots, rel \in RelPaths : CheckIgnore(root, rel)

IgnoreSpec == Init /\ [][IgnoreNext]_vars

\* C39: the project walk and the watcher apply the same ignore rule: for every
\* source file under the project root, index_project indexes the file if and
\* only if the watcher schedules an action for an event on it, and the file is
\* ignored exactly when a segment below the root starts with '.' or is
\* __pycache__, .venv, node_modules, .git or the data directory, wherever the
\* project root itself lives.
C39_SameIgnoreRule ==
    returned.op = "ignore"
       => LET rel == returned.args[2]
              ignored == \E i \in 1..Len(rel) :
                             \/ startswith_dot(rel[i])
                             \/ rel[i] \in {"__pycache__", ".venv", "node_modules", ".git",
                                            ".context_graph"}
          IN /\ returned.value.walk <=> returned.value.watcher
             /\ returned.value.walk <=> ~ignored

====
